---- MODULE Spec2Model ----
(***************************************************************************)
(* Model of the resilient retry engine of vfs-global-tracker               *)
(* (backend/core/retry_engine.py, class SilentRetryEngine).                *)
(*                                                                         *)
(* The engine runs under asyncio: tasks are cooperative, so the code       *)
(* between two awaits is one atomic step.  Each action below is one such   *)
(* step of one execute_with_retry invocation (an "executor").              *)
(*                                                                         *)
(* Time is an integer number of tenths of a second (Sec(1) = 10), so that  *)
(* the 0.5 severity multiplier and the 10%..50% jitter stay integral.      *)
(* hist counts what happened, for the properties only: per operation name *)
(* the run of exhausted invocations since its last success (streak), the   *)
(* time the breaker threshold was last crossed (trip), and the numbers of  *)
(* invocations that ended in success or exhaustion (terminal) and in       *)
(* success (succeeded), both since the statistics were last cleared, and   *)
(* how often they were cleared (resets), and whether any failed attempt    *)
(* was classified Critical (critical).                                     *)
(* An error text is a sequence of words; a pattern is a sequence of        *)
(* lower-case words; containment is contiguous sub-sequence containment.   *)
(***************************************************************************)
EXTENDS Integers, Sequences, FiniteSets, TLC

VARIABLES now, blocked_until, operation_stats, ex, invocations, hist, cfg,
          ctl, probe

vars == <<now, blocked_until, operation_stats, ex, invocations, hist, cfg,
          ctl, probe>>

(***************************************************************************)
(* Bounds of the model                                                     *)
(***************************************************************************)
MaxInvocations == 1
MaxAttemptsArg == 3
SeqInvocations == 2
SeqAttemptsArg == 2
PriorFailures == 4
MaxTimeSec == 700
ConcInvocations == 3
ConcTimeSec == 60
MaxWords == 3
MaxProbeAttempt == 5
MaxResets == 1
MaxProbeChecks == 10
ResetInvocations == 3
MaxProbeRuns == 2
MaxAppointments == 2
MaxCycles == 2
MaxResumes == 1
MaxAlertCount == 2
MaxNegativeArg == 1

(***************************************************************************)
(* Program constants                                                       *)
(***************************************************************************)
max_consecutive_failures == 5
critical_error_cooldown == 300
retry_delay == 30
max_retries == 5

None == "None"

\* An empty Optional[datetime]; times are >= 0.
NoTime == 0 - 1

\* An empty Optional text or list (None) is the empty sequence.
NoText == <<>>

Sec(s) == s * 10

\* The argument and the result of a function applied on its own.
NoProbe == [text |-> <<>>, severity |-> None, done |-> FALSE]

Executors == {"t1", "t2"}
OperationNames == {"opA", "opB"}

ErrorSeverity == {"LOW", "MEDIUM", "HIGH", "CRITICAL"}
RetryStrategy == {"LINEAR", "EXPONENTIAL", "JITTERED", "ADAPTIVE"}

(***************************************************************************)
(* FailureClassifier                                                       *)
(***************************************************************************)
error_patterns ==
  << [pattern |-> <<"timeout">>,                    severity |-> "LOW"],
     [pattern |-> <<"connection">>,                 severity |-> "LOW"],
     [pattern |-> <<"network">>,                    severity |-> "LOW"],
     [pattern |-> <<"dns">>,                        severity |-> "LOW"],
     [pattern |-> <<"element", "not", "found">>,    severity |-> "MEDIUM"],
     [pattern |-> <<"page", "load">>,               severity |-> "MEDIUM"],
     [pattern |-> <<"stale", "element">>,           severity |-> "MEDIUM"],
     [pattern |-> <<"javascript", "error">>,        severity |-> "MEDIUM"],
     [pattern |-> <<"login", "failed">>,            severity |-> "HIGH"],
     [pattern |-> <<"session", "expired">>,         severity |-> "HIGH"],
     [pattern |-> <<"authentication">>,             severity |-> "HIGH"],
     [pattern |-> <<"unauthorized">>,               severity |-> "HIGH"],
     [pattern |-> <<"blocked">>,                    severity |-> "CRITICAL"],
     [pattern |-> <<"banned">>,                     severity |-> "CRITICAL"],
     [pattern |-> <<"cloudflare">>,                 severity |-> "CRITICAL"],
     [pattern |-> <<"too", "many", "requests">>,    severity |-> "CRITICAL"],
     [pattern |-> <<"captcha">>,                    severity |-> "CRITICAL"] >>

LowerWord(w) ==
  CASE w = "Cloudflare" -> "cloudflare"
    [] w = "TIMEOUT"    -> "timeout"
    [] w = "Blocked"    -> "blocked"
    [] w = "Login"      -> "login"
    [] OTHER            -> w

Lower(text) == [i \in 1..Len(text) |-> LowerWord(text[i])]

Contains(text, pat) ==
  \E i \in 0..(Len(text) - Len(pat)) :
     \A j \in 1..Len(pat) : text[i + j] = pat[j]

RECURSIVE FirstMatch(_, _)
FirstMatch(error_lower, i) ==
  IF i > Len(error_patterns) THEN "MEDIUM"
  ELSE IF Contains(error_lower, error_patterns[i].pattern)
       THEN error_patterns[i].severity
       ELSE FirstMatch(error_lower, i + 1)

\* Variant: the latest declared rule whose pattern is contained decides.
ClassifyLastMatch(error_message) ==
  LET error_lower == Lower(error_message)
      found == {i \in 1..Len(error_patterns) :
                  Contains(error_lower, error_patterns[i].pattern)}
  IN IF found = {} THEN "MEDIUM"
     ELSE error_patterns[CHOOSE i \in found : \A j \in found : j <= i].severity

_classify_error(error_message) == FirstMatch(Lower(error_message), 1)

(***************************************************************************)
(* Error texts the modelled operations raise                               *)
(***************************************************************************)
ErrCloudflare == <<"Cloudflare", "challenge">>
ErrSimulated  == <<"Simulated", "failure">>
ErrTimeout    == <<"network", "TIMEOUT">>
ErrLogin      == <<"Login", "failed">>

ErrorTexts == {ErrCloudflare, ErrSimulated, ErrTimeout, ErrLogin}

UnknownError == <<"Unknown", "error">>

(***************************************************************************)
(* StatisticsStore                                                         *)
(***************************************************************************)
\* operation_stats is a dict: a function whose domain is the set of the
\* operation names recorded so far.
NewSuccessEntry ==
  [total_runs |-> 0, successful_runs |-> 0, total_attempts |-> 0,
   total_duration |-> 0, consecutive_failures |-> 0, last_error |-> NoText]

NewFailureEntry ==
  [total_runs |-> 0, successful_runs |-> 0, total_attempts |-> 0,
   total_duration |-> 0, consecutive_failures |-> 0, last_error |-> NoText]

SetItem(stats, key, value) ==
  [k \in DOMAIN stats \cup {key} |-> IF k = key THEN value ELSE stats[k]]

\* Variant: a success that leaves the consecutive-failure counter alone.
UpdateSuccessKeepStreak(stats, operation_name, attempts, duration) ==
  LET s0 == IF operation_name \notin DOMAIN stats THEN NewSuccessEntry
            ELSE stats[operation_name]
  IN SetItem(stats, operation_name,
        [s0 EXCEPT !.total_runs = @ + 1,
                   !.successful_runs = @ + 1,
                   !.total_attempts = @ + attempts,
                   !.total_duration = @ + duration])

_update_success_stats(stats, operation_name, attempts, duration) ==
  LET s0 == IF operation_name \notin DOMAIN stats THEN NewSuccessEntry
            ELSE stats[operation_name]
  IN SetItem(stats, operation_name,
        [s0 EXCEPT !.total_runs = @ + 1,
                   !.successful_runs = @ + 1,
                   !.total_attempts = @ + attempts,
                   !.total_duration = @ + duration,
                   !.consecutive_failures = 0])

\* Variant: a failure that writes back total_runs from a fresh entry, losing
\* the runs recorded before.
UpdateFailureLostRuns(stats, operation_name, attempts, duration, error) ==
  LET s0 == IF operation_name \notin DOMAIN stats THEN NewFailureEntry
            ELSE stats[operation_name]
  IN SetItem(stats, operation_name,
        [s0 EXCEPT !.total_runs = NewFailureEntry.total_runs + 1,
                   !.total_attempts = @ + attempts,
                   !.total_duration = @ + duration,
                   !.consecutive_failures = @ + 1,
                   !.last_error = error])

_update_failure_stats(stats, operation_name, attempts, duration, error) ==
  LET s0 == IF operation_name \notin DOMAIN stats THEN NewFailureEntry
            ELSE stats[operation_name]
  IN SetItem(stats, operation_name,
        [s0 EXCEPT !.total_runs = @ + 1,
                   !.total_attempts = @ + attempts,
                   !.total_duration = @ + duration,
                   !.consecutive_failures = @ + 1,
                   !.last_error = error])

RECURSIVE SumField(_, _, _)
SumField(stats, names, field) ==
  IF names = {} THEN 0
  ELSE LET n == CHOOSE m \in names : TRUE
           v == IF field = "total_runs" THEN stats[n].total_runs
                ELSE stats[n].successful_runs
       IN v + SumField(stats, names \ {n}, field)

\* Variant: no recorded run counts as a rate of 0.
RatePessimistic(stats) ==
  LET total_runs == SumField(stats, DOMAIN stats, "total_runs")
      successful_runs == SumField(stats, DOMAIN stats, "successful_runs")
  IN IF total_runs = 0 THEN [num |-> 0, den |-> 1]
     ELSE [num |-> successful_runs, den |-> total_runs]

\* The rate is the fraction successful / total, kept as a pair; 1.0 is 1/1.
_get_recent_success_rate(stats) ==
  LET total_runs == SumField(stats, DOMAIN stats, "total_runs")
      successful_runs == SumField(stats, DOMAIN stats, "successful_runs")
  IN IF total_runs = 0 THEN [num |-> 1, den |-> 1]
     ELSE [num |-> successful_runs, den |-> total_runs]

(***************************************************************************)
(* BackoffPolicy.  Delays are in tenths of a second: the multipliers are   *)
(* kept times ten (0.5 -> 5), and retry_delay is in seconds.               *)
(***************************************************************************)
severity_multipliers ==
  [s \in ErrorSeverity |->
     CASE s = "LOW" -> 5 [] s = "MEDIUM" -> 10 [] s = "HIGH" -> 20 [] s = "CRITICAL" -> 50]

JitterPercents == {10, 30, 50}

RECURSIVE Pow2(_)
Pow2(n) == IF n <= 0 THEN 1 ELSE 2 * Pow2(n - 1)

\* jitter is the drawn random.uniform(0.1, 0.5), in percent; the Adaptive
\* delay is rounded down to a tenth of a second.
\* Variant: the exponent is the attempt number, not the attempt number less one.
CalculateDelayLateExponent(attempt, strategy, severity, stats, jitter) ==
  LET base_delay == retry_delay * severity_multipliers[severity]
      exponential_delay == base_delay * Pow2(attempt)
      success_rate == _get_recent_success_rate(stats)
  IN CASE strategy = "LINEAR"      -> base_delay
       [] strategy = "EXPONENTIAL" -> exponential_delay
       [] strategy = "JITTERED"    -> exponential_delay + (exponential_delay * jitter) \div 100
       [] strategy = "ADAPTIVE"    ->
            (base_delay * (3 * success_rate.den - 2 * success_rate.num) * attempt)
               \div success_rate.den
       [] OTHER -> base_delay

\* Variant: the jitter is added twice.
CalculateDelayDoubleJitter(attempt, strategy, severity, stats, jitter) ==
  LET base_delay == retry_delay * severity_multipliers[severity]
      exponential_delay == base_delay * Pow2(attempt - 1)
      success_rate == _get_recent_success_rate(stats)
  IN CASE strategy = "LINEAR"      -> base_delay
       [] strategy = "EXPONENTIAL" -> exponential_delay
       [] strategy = "JITTERED"    ->
            exponential_delay + 2 * ((exponential_delay * jitter) \div 100)
       [] strategy = "ADAPTIVE"    ->
            (base_delay * (3 * success_rate.den - 2 * success_rate.num) * attempt)
               \div success_rate.den
       [] OTHER -> base_delay

\* Variant: the Adaptive multiplier is 3 - rate.
CalculateDelayHalfSlope(attempt, strategy, severity, stats, jitter) ==
  LET base_delay == retry_delay * severity_multipliers[severity]
      exponential_delay == base_delay * Pow2(attempt - 1)
      success_rate == _get_recent_success_rate(stats)
  IN CASE strategy = "LINEAR"      -> base_delay
       [] strategy = "EXPONENTIAL" -> exponential_delay
       [] strategy = "JITTERED"    -> exponential_delay + (exponential_delay * jitter) \div 100
       [] strategy = "ADAPTIVE"    ->
            (base_delay * (3 * success_rate.den - success_rate.num) * attempt)
               \div success_rate.den
       [] OTHER -> base_delay

\* Variant: every strategy backs off exponentially.
CalculateDelayExponential(attempt, strategy, severity, stats, jitter) ==
  retry_delay * severity_multipliers[severity] * Pow2(attempt - 1)

_calculate_delay(attempt, strategy, severity, stats, jitter) ==
  LET base_delay == retry_delay * severity_multipliers[severity]
      exponential_delay == base_delay * Pow2(attempt - 1)
      success_rate == _get_recent_success_rate(stats)
  IN CASE strategy = "LINEAR"      -> base_delay
       [] strategy = "EXPONENTIAL" -> exponential_delay
       [] strategy = "JITTERED"    -> exponential_delay + (exponential_delay * jitter) \div 100
       [] strategy = "ADAPTIVE"    ->
            (base_delay * (3 * success_rate.den - 2 * success_rate.num) * attempt)
               \div success_rate.den
       [] OTHER -> base_delay

(***************************************************************************)
(* CircuitState                                                            *)
(***************************************************************************)
\* Variant: the breaker is never seen open.
IsBlockedNever(bu, t) == [blocked |-> FALSE, blocked_until |-> bu]

\* Variant: the breaker is still open at the deadline itself.
IsBlockedInclusive(bu, t) ==
  IF bu # NoTime
  THEN IF t <= bu THEN [blocked |-> TRUE, blocked_until |-> bu]
       ELSE [blocked |-> FALSE, blocked_until |-> NoTime]
  ELSE [blocked |-> FALSE, blocked_until |-> bu]

_is_blocked(bu, t) ==
  IF bu # NoTime
  THEN IF t < bu THEN [blocked |-> TRUE, blocked_until |-> bu]
       ELSE [blocked |-> FALSE, blocked_until |-> NoTime]
  ELSE [blocked |-> FALSE, blocked_until |-> bu]

\* Variant: the emergency stop blocks for half the cooldown.
EmergencyStopHalfCooldown(t) == t + Sec(critical_error_cooldown) \div 2

_action_emergency_stop(t) == t + Sec(critical_error_cooldown)

\* Variant: the auto-block never opens the breaker.
HandleCriticalFailureNoBlock(stats, operation_name, bu, t) ==
  [blocked_until |-> bu, alert |-> FALSE]

\* The new blocked_until and whether the auto-block alert is requested.
_handle_critical_failure(stats, operation_name, bu, t) ==
  LET consecutive_failures ==
        (IF operation_name \notin DOMAIN stats THEN 0
         ELSE stats[operation_name].consecutive_failures) + 1
  IN IF consecutive_failures >= max_consecutive_failures
     THEN [blocked_until |-> t + Sec(critical_error_cooldown), alert |-> TRUE]
     ELSE [blocked_until |-> bu, alert |-> FALSE]

(***************************************************************************)
(* RecoveryCoordinator                                                     *)
(***************************************************************************)
recovery_actions ==
  [s \in ErrorSeverity |->
     CASE s = "LOW"      -> <<"_action_simple_retry", "_action_refresh_page">>
       [] s = "MEDIUM"   -> <<"_action_clear_cache", "_action_restart_driver",
                              "_action_change_user_agent">>
       [] s = "HIGH"     -> <<"_action_full_relogin", "_action_clear_session",
                              "_action_restart_browser">>
       [] s = "CRITICAL" -> <<"_action_emergency_stop", "_action_notify_admin",
                              "_action_ip_rotation">>]

\* Seconds an action sleeps before it returns; 0 for the actions that do
\* not sleep (the admin notification waits for the Notifier instead).
ActionSleep(a) ==
  CASE a = "_action_refresh_page"      -> 1
    [] a = "_action_clear_cache"       -> 1
    [] a = "_action_restart_driver"    -> 2
    [] a = "_action_change_user_agent" -> 1
    [] a = "_action_full_relogin"      -> 3
    [] a = "_action_clear_session"     -> 2
    [] a = "_action_restart_browser"   -> 5
    [] a = "_action_ip_rotation"       -> 1
    [] OTHER                           -> 0

\* What a suspended action can report when it resumes: a sleep returns and
\* the action reports True; the admin notification reports True when the
\* alert went through and False when the Notifier raised.
ActionOutcomes(a) ==
  IF a = "_action_notify_admin" THEN {TRUE, FALSE} ELSE {TRUE}

\* Runs the actions from index i on, at time t, up to the first one that
\* suspends (status "suspended", idx the suspended action) or to the end of
\* the loop (status "finished", success the loop's recovery_success).
\* Variant: the loop does not stop at an action that reports success.
RECURSIVE ExecuteEveryAction(_, _, _, _, _)
ExecuteEveryAction(actions, i, bu, log, t) ==
  IF i > Len(actions)
  THEN [status |-> "finished", success |-> TRUE, idx |-> i,
        blocked_until |-> bu, log |-> log]
  ELSE LET a == actions[i] IN
       CASE a = "_action_simple_retry" ->
              ExecuteEveryAction(actions, i + 1, bu, Append(log, a), t)
         [] a = "_action_emergency_stop" ->
              ExecuteEveryAction(actions, i + 1, _action_emergency_stop(t),
                                 Append(log, a), t)
         [] OTHER ->
              [status |-> "suspended", success |-> FALSE, idx |-> i,
               blocked_until |-> bu, log |-> Append(log, a)]

RECURSIVE _execute_recovery_actions(_, _, _, _, _)
_execute_recovery_actions(actions, i, bu, log, t) ==
  IF i > Len(actions)
  THEN [status |-> "finished", success |-> FALSE, idx |-> i,
        blocked_until |-> bu, log |-> log]
  ELSE LET a == actions[i] IN
       CASE a = "_action_simple_retry" ->
              [status |-> "finished", success |-> TRUE, idx |-> i,
               blocked_until |-> bu, log |-> Append(log, a)]
         [] a = "_action_emergency_stop" ->
              _execute_recovery_actions(actions, i + 1, _action_emergency_stop(t),
                                        Append(log, a), t)
         [] OTHER ->
              [status |-> "suspended", success |-> FALSE, idx |-> i,
               blocked_until |-> bu, log |-> Append(log, a)]

(***************************************************************************)
(* RetryExecutor: one record per execute_with_retry invocation.            *)
(* pc: idle (no invocation), calling (operation awaited), recovering (a    *)
(* recovery action awaited), sleeping (backoff), alerting (auto-block      *)
(* alert awaited), done (RetryResult returned, not yet taken).             *)
(* calls, delays, rec_log, call_open, start_*, ret_*, auto_block,          *)
(* post_count, tripped and stop_at record what the invocation did and saw; *)
(* the code does not read them.  So do rec_reports (what each action of    *)
(* rec_log returned), rec_from (the length of rec_log when the recovery    *)
(* after the latest failure began) and rec_success (what that recovery     *)
(* returned).                                                              *)
(***************************************************************************)
\* The RetryResult defaults (lines 56-61); the record an executor holds
\* before it has returned one.
NoResult ==
  [success |-> FALSE, final_result |-> None, total_attempts |-> 0, total_time |-> 0,
   error_message |-> NoText, recovery_actions |-> NoText]

IdleExec ==
  [pc |-> "idle", operation_name |-> None, max_attempts |-> 0, strategy |-> None,
   attempt_count |-> 0, error_history |-> <<>>, start_time |-> 0, total_delay |-> 0,
   severity |-> None, action_idx |-> 0, wake_at |-> 0, result |-> NoResult,
   calls |-> 0, delays |-> <<>>, rec_log |-> <<>>, call_open |-> FALSE,
   rec_reports |-> <<>>, rec_from |-> 0, rec_success |-> FALSE,
   ret_time |-> 0, ret_blocked_until |-> NoTime, auto_block |-> FALSE,
   post_count |-> 0, tripped |-> FALSE, stop_at |-> NoTime,
   start_bu |-> NoTime, start_stats |-> <<>>, ret_stats |-> <<>>]

BlockedResult ==
  [success |-> FALSE, final_result |-> None, total_attempts |-> 0, total_time |-> 0,
   error_message |-> <<"System", "temporarily", "blocked", "due", "to", "critical", "errors">>,
   recovery_actions |-> <<"wait_for_cooldown">>]

IsOpen(bu, t) == bu # NoTime /\ t < bu

\* await operation_func(**kwargs) for attempt number n, started at time t.
StartAttempt(x, n, bu, t) ==
  [x EXCEPT !.pc = "calling", !.attempt_count = n, !.calls = @ + 1,
            !.call_open = @ \/ IsOpen(bu, t)]

Returned(x, res, bu, t, stats) ==
  [x EXCEPT !.pc = "done", !.result = res, !.ret_time = t, !.ret_blocked_until = bu,
            !.ret_stats = stats]

\* Variant: the loop gives up one attempt early.
LastAttemptEarly(x) == x.attempt_count >= x.max_attempts - 1

\* Variant: the loop gives up one attempt late.
LastAttemptLate(x) == x.attempt_count > x.max_attempts

\* Line 210: if attempt == max_attempts: break
LastAttempt(x) == x.attempt_count = x.max_attempts

\* Variant: the result lists the recovery actions that were run.
ExhaustedListsAttempted(x, stats, bu, t) ==
  LET total_time == t - x.start_time
      final_error == IF x.error_history # <<>>
                     THEN x.error_history[Len(x.error_history)] ELSE UnknownError
      stats1 == _update_failure_stats(stats, x.operation_name, x.max_attempts,
                                      total_time, final_error)
      critical == _classify_error(final_error) = "CRITICAL"
      h == IF critical
           THEN _handle_critical_failure(stats1, x.operation_name, bu, t)
           ELSE [blocked_until |-> bu, alert |-> FALSE]
      res == [success |-> FALSE, final_result |-> None,
              total_attempts |-> x.max_attempts, total_time |-> total_time,
              error_message |-> final_error,
              recovery_actions |-> x.rec_log]
      x1 == [x EXCEPT !.auto_block = h.alert,
                      !.post_count = stats1[x.operation_name].consecutive_failures]
  IN [stats |-> stats1, blocked_until |-> h.blocked_until,
      x |-> IF h.alert THEN [x1 EXCEPT !.pc = "alerting", !.result = res]
            ELSE Returned(x1, res, h.blocked_until, t, stats1)]

\* Variant: the critical-failure handling runs whatever the severity of the
\* last error.
ExhaustedAlwaysEscalates(x, stats, bu, t) ==
  LET total_time == t - x.start_time
      final_error == IF x.error_history # <<>>
                     THEN x.error_history[Len(x.error_history)] ELSE UnknownError
      stats1 == _update_failure_stats(stats, x.operation_name, x.max_attempts,
                                      total_time, final_error)
      h == _handle_critical_failure(stats1, x.operation_name, bu, t)
      res == [success |-> FALSE, final_result |-> None,
              total_attempts |-> x.max_attempts, total_time |-> total_time,
              error_message |-> final_error,
              recovery_actions |-> recovery_actions[_classify_error(final_error)]]
      x1 == [x EXCEPT !.auto_block = h.alert,
                      !.post_count = stats1[x.operation_name].consecutive_failures]
  IN [stats |-> stats1, blocked_until |-> h.blocked_until,
      x |-> IF h.alert THEN [x1 EXCEPT !.pc = "alerting", !.result = res]
            ELSE Returned(x1, res, h.blocked_until, t, stats1)]

\* Lines 227-250: all attempts failed.
Exhausted(x, stats, bu, t) ==
  LET total_time == t - x.start_time
      final_error == IF x.error_history # <<>>
                     THEN x.error_history[Len(x.error_history)] ELSE UnknownError
      stats1 == _update_failure_stats(stats, x.operation_name, x.max_attempts,
                                      total_time, final_error)
      critical == _classify_error(final_error) = "CRITICAL"
      h == IF critical
           THEN _handle_critical_failure(stats1, x.operation_name, bu, t)
           ELSE [blocked_until |-> bu, alert |-> FALSE]
      res == [success |-> FALSE, final_result |-> None,
              total_attempts |-> x.max_attempts, total_time |-> total_time,
              error_message |-> final_error,
              recovery_actions |-> recovery_actions[_classify_error(final_error)]]
      x1 == [x EXCEPT !.auto_block = h.alert,
                      !.post_count = stats1[x.operation_name].consecutive_failures]
  IN [stats |-> stats1, blocked_until |-> h.blocked_until,
      x |-> IF h.alert THEN [x1 EXCEPT !.pc = "alerting", !.result = res]
            ELSE Returned(x1, res, h.blocked_until, t, stats1)]

\* What an action that does not suspend returns: _action_simple_retry True
\* (line 321), _action_emergency_stop False (line 396).
SyncReport(a) == a = "_action_simple_retry"

\* Lines 213-225 once the recovery loop r has run as far as it can at time t.
AfterRecovery(x, r, stats, t, jitter) ==
  LET ran == {r.log[k] : k \in (Len(x.rec_log) + 1)..Len(r.log)}
      returned == (Len(r.log) - Len(x.rec_log))
                    - (IF r.status = "suspended" THEN 1 ELSE 0)
      x1 == [x EXCEPT !.rec_log = r.log,
                      !.rec_reports = @ \o [k \in 1..returned |->
                                              SyncReport(r.log[Len(x.rec_log) + k])],
                      !.stop_at = IF "_action_emergency_stop" \in ran THEN t ELSE @]
  IN IF r.status = "suspended"
     THEN [x1 EXCEPT !.pc = "recovering", !.action_idx = r.idx,
                     !.wake_at = t + Sec(ActionSleep(recovery_actions[x.severity][r.idx]))]
     ELSE LET delay == _calculate_delay(x.attempt_count, x.strategy, x.severity,
                                        stats, jitter)
          IN [x1 EXCEPT !.pc = "sleeping", !.action_idx = 0,
                        !.rec_success = r.success,
                        !.total_delay = @ + delay,
                        !.delays = Append(@, delay),
                        !.wake_at = t + delay]

JitterDraws(strategy) == IF strategy = "JITTERED" THEN JitterPercents ELSE {0}

(***************************************************************************)
(* Actions                                                                 *)
(***************************************************************************)
\* execute_with_retry is called: lines 142-174 up to the first await.  arg
\* is the max_attempts argument, 0 standing for None as well (line 142
\* replaces either by the configured max_retries); with max_attempts < 1
\* the range of line 167 is empty and lines 227-250 follow at once.
Invoke(e, operation_name, arg, strategy) ==
  /\ ex[e].pc = "idle"
  /\ invocations < cfg.budget
  /\ LET max_attempts == IF arg = 0 THEN max_retries ELSE arg
         b == _is_blocked(blocked_until, now)
         x0 == [IdleExec EXCEPT !.operation_name = operation_name,
                                !.max_attempts = max_attempts,
                                !.strategy = strategy,
                                !.start_time = now,
                                !.start_bu = blocked_until,
                                !.start_stats = operation_stats,
                                !.tripped = hist.trip # NoTime
                                            /\ now < hist.trip + Sec(critical_error_cooldown)]
         empty == ~b.blocked /\ max_attempts < 1
         d == Exhausted(x0, operation_stats, b.blocked_until, now)
         n == hist.streak[operation_name] + 1
         critical == _classify_error(UnknownError) = "CRITICAL"
     IN /\ blocked_until' = IF empty THEN d.blocked_until ELSE b.blocked_until
        /\ ex' = [ex EXCEPT ![e] =
                    IF b.blocked THEN Returned(x0, BlockedResult, b.blocked_until, now,
                                              operation_stats)
                    ELSE IF empty THEN d.x
                    ELSE StartAttempt(x0, 1, b.blocked_until, now)]
        /\ operation_stats' = IF empty THEN d.stats ELSE operation_stats
        /\ hist' = IF empty
                   THEN [hist EXCEPT
                           !.streak[operation_name] = n,
                           !.terminal = @ + 1,
                           !.critical = @ \/ critical,
                           !.trip = IF critical /\ n >= max_consecutive_failures
                                    THEN now ELSE @]
                   ELSE hist
  /\ invocations' = invocations + 1
  /\ UNCHANGED <<now, cfg, ctl, probe>>

\* The awaited operation returns: lines 176-191.
OpSucceed(e) ==
  /\ ex[e].pc = "calling"
  /\ LET x == ex[e]
         total_time == now - x.start_time
         res == [success |-> TRUE, final_result |-> "Success",
                 total_attempts |-> x.attempt_count, total_time |-> total_time,
                 error_message |-> NoText, recovery_actions |-> NoText]
     IN /\ operation_stats' = _update_success_stats(operation_stats, x.operation_name,
                                                    x.attempt_count, total_time)
        /\ ex' = [ex EXCEPT ![e] = Returned(x, res, blocked_until, now, operation_stats')]
        /\ hist' = [hist EXCEPT !.streak[x.operation_name] = 0,
                                !.terminal = @ + 1, !.succeeded = @ + 1]
  /\ UNCHANGED <<now, blocked_until, invocations, cfg, ctl, probe>>

\* The awaited operation raises error: lines 193-225, then 227-250 when it
\* was the last attempt.
OpFail(e, error, jitter) ==
  /\ ex[e].pc = "calling"
  /\ jitter \in JitterDraws(ex[e].strategy)
  /\ LET x == [ex[e] EXCEPT !.error_history = Append(@, error),
                            !.severity = _classify_error(error)]
     IN IF LastAttempt(x)
        THEN LET d == Exhausted(x, operation_stats, blocked_until, now)
                 n == hist.streak[x.operation_name] + 1
             IN /\ operation_stats' = d.stats
                /\ blocked_until' = d.blocked_until
                /\ ex' = [ex EXCEPT ![e] = d.x]
                /\ hist' = [hist EXCEPT
                              !.streak[x.operation_name] = n,
                              !.terminal = @ + 1,
                              !.critical = @ \/ x.severity = "CRITICAL",
                              !.trip = IF x.severity = "CRITICAL"
                                          /\ n >= max_consecutive_failures
                                       THEN now ELSE @]
        ELSE LET r == _execute_recovery_actions(recovery_actions[x.severity], 1,
                                                blocked_until, x.rec_log, now)
                 x0 == [x EXCEPT !.rec_from = Len(x.rec_log)]
             IN /\ blocked_until' = r.blocked_until
                /\ ex' = [ex EXCEPT ![e] = AfterRecovery(x0, r, operation_stats, now, jitter)]
                /\ hist' = [hist EXCEPT !.critical = @ \/ x.severity = "CRITICAL"]
                /\ UNCHANGED operation_stats
  /\ UNCHANGED <<now, invocations, cfg, ctl, probe>>

\* The awaited recovery action returns ok: the rest of the loop of
\* _execute_recovery_actions, then lines 216-225.
RecoveryReturn(e, ok, jitter) ==
  /\ ex[e].pc = "recovering"
  /\ now >= ex[e].wake_at
  /\ jitter \in JitterDraws(ex[e].strategy)
  /\ LET x == [ex[e] EXCEPT !.rec_reports = Append(@, ok)]
         actions == recovery_actions[x.severity]
     IN /\ ok \in ActionOutcomes(actions[x.action_idx])
        /\ LET r == IF ok
                    THEN [status |-> "finished", success |-> TRUE, idx |-> x.action_idx,
                          blocked_until |-> blocked_until, log |-> x.rec_log]
                    ELSE _execute_recovery_actions(actions, x.action_idx + 1,
                                                   blocked_until, x.rec_log, now)
           IN /\ blocked_until' = r.blocked_until
              /\ ex' = [ex EXCEPT ![e] = AfterRecovery(x, r, operation_stats, now, jitter)]
  /\ UNCHANGED <<now, operation_stats, invocations, hist, cfg, ctl, probe>>

\* Variant: the next attempt does not wait for the end of the backoff sleep.
WakeEarly(e) ==
  /\ ex[e].pc = "sleeping"
  /\ ex' = [ex EXCEPT ![e] = StartAttempt(ex[e], ex[e].attempt_count + 1,
                                          blocked_until, now)]
  /\ UNCHANGED <<now, blocked_until, operation_stats, invocations, hist, cfg, ctl, probe>>

\* Variant: the loop counter does not advance.
WakeSameAttempt(e) ==
  /\ ex[e].pc = "sleeping"
  /\ now >= ex[e].wake_at
  /\ ex' = [ex EXCEPT ![e] = StartAttempt(ex[e], ex[e].attempt_count,
                                          blocked_until, now)]
  /\ UNCHANGED <<now, blocked_until, operation_stats, invocations, hist, cfg, ctl, probe>>

\* asyncio.sleep(delay) returns: the next iteration of the loop, lines 167-174.
Wake(e) ==
  /\ ex[e].pc = "sleeping"
  /\ now >= ex[e].wake_at
  /\ ex' = [ex EXCEPT ![e] = StartAttempt(ex[e], ex[e].attempt_count + 1,
                                          blocked_until, now)]
  /\ UNCHANGED <<now, blocked_until, operation_stats, invocations, hist, cfg, ctl, probe>>

\* The auto-block alert of _handle_critical_failure returns or raises.
AlertReturn(e) ==
  /\ ex[e].pc = "alerting"
  /\ ex' = [ex EXCEPT ![e] = Returned(ex[e], ex[e].result, blocked_until, now,
                                       operation_stats)]
  /\ UNCHANGED <<now, blocked_until, operation_stats, invocations, hist, cfg, ctl, probe>>

\* The caller takes the RetryResult; the executor is free for a new call.
Collect(e) ==
  /\ ex[e].pc = "done"
  /\ ex' = [ex EXCEPT ![e] = IdleExec]
  /\ UNCHANGED <<now, blocked_until, operation_stats, invocations, hist, cfg, ctl, probe>>

\* get_statistics: its _is_blocked call clears an elapsed blocked_until.
GetStatistics ==
  /\ blocked_until # NoTime
  /\ blocked_until' = _is_blocked(blocked_until, now).blocked_until
  /\ UNCHANGED <<now, operation_stats, ex, invocations, hist, cfg, ctl, probe>>

\* Variant: a plain sleep, which ends at its timeout only.
WaitForTimeoutOnly(shutdown, wake_at, t) ==
  IF t >= wake_at THEN "TimeoutError" ELSE "pending"

\* asyncio.wait_for(self._shutdown_event.wait(), timeout=delay) at time t:
\* it returns as soon as the event is set, raises TimeoutError once the
\* timeout has run out, and is pending otherwise.
wait_for(shutdown, wake_at, t) ==
  IF shutdown THEN "returned"
  ELSE IF t >= wake_at THEN "TimeoutError"
  ELSE "pending"

\* Time passes: to the next wake-up of a sleeping executor, to the end of
\* the cooldown (or a tenth of a second before it), or, while the monitoring
\* loop waits between two cycles, to one second into the wait and to its
\* timeout.  An operation call or alert in flight lasts as long as the time
\* that passes meanwhile.
TickTargets ==
  {ex[e].wake_at : e \in {f \in cfg.executors : ex[f].pc \in {"sleeping", "recovering"}}}
    \cup (IF blocked_until # NoTime THEN {blocked_until - 1, blocked_until} ELSE {})
    \cup (IF ctl.pc = "sleep" /\ wait_for(ctl.shutdown, ctl.wake_at, now) = "pending"
          THEN {ctl.wake_at - ctl.delay + Sec(1), ctl.wake_at} ELSE {})

Tick(t) ==
  /\ t > now
  /\ t <= cfg.horizon
  /\ now' = t
  /\ UNCHANGED <<blocked_until, operation_stats, ex, invocations, hist, cfg, ctl, probe>>

Next ==
  \/ \E e \in cfg.executors, op \in cfg.operations, arg \in cfg.max_args,
        st \in cfg.strategies : Invoke(e, op, arg, st)
  \/ \E e \in cfg.executors : OpSucceed(e)
  \/ \E e \in cfg.executors, error \in cfg.errors, j \in JitterPercents \cup {0} :
        OpFail(e, error, j)
  \/ \E e \in cfg.executors, ok \in BOOLEAN, j \in JitterPercents \cup {0} :
        RecoveryReturn(e, ok, j)
  \/ \E e \in cfg.executors : Wake(e)
  \/ \E e \in cfg.executors : AlertReturn(e)
  \/ \E e \in cfg.executors : Collect(e)
  \/ GetStatistics
  \/ \E t \in TickTargets : Tick(t)

(***************************************************************************)
(* Orchestrator (backend/main_controller.py, class VFSMainController)      *)
(***************************************************************************)
\* settings.SCRAPING.check_interval_min / check_interval_max, in minutes.
check_interval_min == 1
check_interval_max == 3

\* self.scrapers, in insertion order.
Offices == <<"A", "B", "C">>
OfficeSet == {Offices[i] : i \in 1..Len(Offices)}

\* What gather(..., return_exceptions=True) reports for one task: the
\* exception the task raised, or the ScrapingResult it returned.
NoOutcome == [kind |-> "none", error |-> "", success |-> FALSE, appointments |-> 0]
RaisedOutcome(error) ==
  [kind |-> "exception", error |-> error, success |-> FALSE, appointments |-> 0]
ScrapingResult(success, n) ==
  [kind |-> "result", error |-> "", success |-> success, appointments |-> n]

ScrapingResults ==
  {ScrapingResult(FALSE, 0), ScrapingResult(TRUE, 0), ScrapingResult(TRUE, MaxAppointments)}

\* The RetryResult execute_with_retry hands to the with_retry wrapper: a
\* success carrying what the check body returned, or a failure (exhausted
\* or blocked).
CheckRetryResults ==
  {[success |-> TRUE, final_result |-> sr] : sr \in ScrapingResults}
    \cup {[success |-> FALSE, final_result |-> NoOutcome]}

\* with_retry's wrapper, called with nargs positional arguments.  The call
\* execute_with_retry(operation_func=func, ..., *args, **kwargs) binds the
\* positional arguments to operation_func, operation_name, office first, so
\* with any positional argument the keyword operation_func is a duplicate
\* and the call raises TypeError before the engine runs.  Otherwise a
\* failed RetryResult is turned into a raised Exception.
with_retry(nargs, result) ==
  IF nargs > 0 THEN RaisedOutcome("TypeError")
  ELSE IF result.success THEN result.final_result
  ELSE RaisedOutcome("Exception")

\* The check body runs to its return statement only inside the engine, and
\* only when scraper.check_appointments() returned.
BodyReturned(nargs, result) == nargs = 0 /\ result.success

\* The check body is entered by line 174 of the engine, which the wrapper's
\* call reaches only when it binds its arguments.
BodyEntered(nargs) == nargs = 0

\* city_stats of one office; appointments_found and the last_* times, which
\* the loop never reads, are left out.
NewCityStats == [total_checks |-> 0, successful_checks |-> 0]

\* _check_office_with_retry, lines 171-176: the statistics of one office
\* after its scraper returned result.
UpdateCityStats(stats, result) ==
  [total_checks |-> stats.total_checks + 1,
   successful_checks |-> stats.successful_checks + (IF result.success THEN 1 ELSE 0)]

RECURSIVE SumCity(_, _, _)
SumCity(city_stats, i, field) ==
  IF i > Len(Offices) THEN 0
  ELSE city_stats[Offices[i]][field] + SumCity(city_stats, i + 1, field)

\* _calculate_overall_success_rate as the pair successful / total; 1.0 when
\* nothing was counted.
_calculate_overall_success_rate(city_stats) ==
  LET total_checks == SumCity(city_stats, 1, "total_checks")
      successful_checks == SumCity(city_stats, 1, "successful_checks")
  IN IF total_checks = 0 THEN [num |-> 1, den |-> 1]
     ELSE [num |-> successful_checks, den |-> total_checks]

\* The draws of random.uniform(min_delay, max_delay) the model follows.
BaseDelays == {Sec(check_interval_min * 60), Sec(check_interval_max * 60)}

\* Variant: a rate of exactly 0.9 already shortens the delay.
CalculateNextDelayInclusive(city_stats, base_delay) ==
  LET rate == _calculate_overall_success_rate(city_stats)
  IN IF 2 * rate.num < rate.den THEN (base_delay * 15) \div 10
     ELSE IF 10 * rate.num >= 9 * rate.den THEN (base_delay * 8) \div 10
     ELSE base_delay

_calculate_next_delay(city_stats, base_delay) ==
  LET rate == _calculate_overall_success_rate(city_stats)
  IN IF 2 * rate.num < rate.den THEN (base_delay * 15) \div 10
     ELSE IF 10 * rate.num > 9 * rate.den THEN (base_delay * 8) \div 10
     ELSE base_delay

\* TelegramNotifier.send_appointment_alert for one delivery attempt:
\* "disabled" (notifications off), "failed" (the send reports failure) or
\* "sent" (Telegram accepted the message).  After a successful send line 77
\* calls telegram_logger.appointment_alert_sent, a method VFSLogger does not
\* have, so the call raises AttributeError instead of returning True.
Deliveries == {"disabled", "failed", "sent"}
send_appointment_alert(delivery) ==
  CASE delivery = "disabled" -> "False"
    [] delivery = "failed"   -> "False"
    [] delivery = "sent"     -> "AttributeError"

\* _send_appointment_alert: is_running after the alert; the except clause
\* of line 257 swallows what the notifier raises.
_send_appointment_alert(is_running, delivery) ==
  IF send_appointment_alert(delivery) = "True" THEN FALSE ELSE is_running

\* _process_check_results, lines 194-203: the first result at index i or
\* later that carries appointments to alert for; Len(Offices) + 1 if none.
RECURSIVE NextDetection(_, _)
NextDetection(results, i) ==
  IF i > Len(Offices) THEN i
  ELSE LET r == results[Offices[i]]
       IN IF r.kind = "result" /\ r.success /\ r.appointments > 0 THEN i
          ELSE NextDetection(results, i + 1)

\* Variant: gather without return_exceptions raises a task's exception.
GatherPropagate(results) ==
  [raised |-> \E o \in OfficeSet : results[o].kind = "exception",
   results |-> results]

\* Variant: the await resumes as soon as one task has finished.
GatherDoneAny(task) == \E o \in OfficeSet : task[o] = "done"

\* gather(*tasks, return_exceptions=True): exceptions come back as values.
gather(results) == [raised |-> FALSE, results |-> results]

\* The await of gather resumes once every task has finished.
GatherDone(task) == \A o \in OfficeSet : task[o] = "done"

\* The controller before run_monitoring_loop is called.  Fields after
\* wake_at record what happened and are read by no action's guard.
IdleCtl ==
  [pc |-> "start", is_running |-> FALSE, shutdown |-> FALSE, cycle |-> 0,
   task |-> [o \in OfficeSet |-> "none"],
   results |-> [o \in OfficeSet |-> NoOutcome],
   idx |-> 0, left |-> 0,
   city_stats |-> [o \in OfficeSet |-> NewCityStats],
   total_checks |-> 0, delay |-> 0, wake_at |-> NoTime,
   seen |-> {}, exit_via |-> "none", cleanups |-> 0,
   alerts |-> 0, detected_cycle |-> 0, resumes |-> 0,
   rate |-> [num |-> 1, den |-> 1],
   shutdown_at |-> NoTime, at_shutdown |-> [e \in Executors |-> 0 - 1],
   in_flight |-> FALSE, entered |-> {}, paused_on_detection |-> FALSE,
   sessions |-> {}]

\* MultiSessionManager.close_all (authentication.py, lines 496-503): every
\* session is closed and the table of sessions is emptied.
close_all(sessions) == sessions \ {o \in sessions : TRUE}

\* Variant: the cleanup sits in the except clause, not in the finally clause.
CleanupOnErrorOnly(c, via) ==
  IF via = "error"
  THEN [c EXCEPT !.pc = "returned", !.cleanups = @ + 1, !.exit_via = via,
                 !.sessions = close_all(@)]
  ELSE [c EXCEPT !.pc = "returned", !.exit_via = via]

\* _cleanup in the finally clause, then run_monitoring_loop returns.
Cleanup(c, via) ==
  [c EXCEPT !.pc = "returned", !.cleanups = @ + 1, !.exit_via = via,
            !.sessions = close_all(@)]

\* Lines 123-135: the while condition, then one task per office and the
\* await of gather.
EnterLoop(c) ==
  IF c.is_running /\ ~c.shutdown
  THEN [c EXCEPT !.pc = "gather", !.cycle = @ + 1,
                 !.task = [o \in OfficeSet |-> "running"],
                 !.results = [o \in OfficeSet |-> NoOutcome],
                 !.seen = {}, !.idx = 0, !.left = 0, !.entered = {}]
  ELSE Cleanup(c, "head")

CanEnterLoop(c) == (c.is_running /\ ~c.shutdown) => c.cycle < MaxCycles

\* _process_check_results from result i on, up to its next await: the alert
\* for the first appointment of the next detecting result, or, after the
\* last result, the awaits that end the cycle.
Process(c, i) ==
  LET j == NextDetection(c.results, i)
      visited == {Offices[k] : k \in {n \in i..Len(Offices) : n <= j}}
  IN IF j <= Len(Offices)
     THEN [c EXCEPT !.pc = "process", !.idx = j,
                    !.left = c.results[Offices[j]].appointments,
                    !.seen = @ \cup visited,
                    !.detected_cycle = IF @ = 0 THEN c.cycle ELSE @]
     ELSE [c EXCEPT !.pc = "maintain", !.idx = j, !.left = 0,
                    !.seen = @ \cup visited]

\* run_monitoring_loop is called: initialize() reports ok, having opened
\* one session per office (lines 74-84); lines 115-135.
RunMonitoringLoop(ok) ==
  /\ ctl.pc = "start"
  /\ ctl' = IF ok THEN EnterLoop([ctl EXCEPT !.is_running = TRUE,
                                             !.sessions = OfficeSet])
            ELSE [ctl EXCEPT !.pc = "returned", !.exit_via = "init_failed"]
  /\ UNCHANGED <<now, blocked_until, operation_stats, ex, invocations, hist, cfg, probe>>

\* The task of office o finishes: the wrapper was called with nargs
\* positional arguments and the engine, if it ran, produced result.
CheckReturn(o, nargs, result) ==
  /\ ctl.task[o] = "running"
  /\ LET outcome == with_retry(nargs, result)
         ran == BodyReturned(nargs, result)
     IN ctl' = [ctl EXCEPT
          !.task[o] = "done",
          !.results[o] = outcome,
          !.entered = IF BodyEntered(nargs) THEN @ \cup {o} ELSE @,
          !.city_stats[o] = IF ran THEN UpdateCityStats(@, result.final_result) ELSE @,
          !.total_checks = IF ran THEN @ + 1 ELSE @]
  /\ UNCHANGED <<now, blocked_until, operation_stats, ex, invocations, hist, cfg, probe>>

\* The await of gather returns: lines 135-138.
GatherReturn ==
  /\ ctl.pc = "gather"
  /\ GatherDone(ctl.task)
  /\ ctl' = IF gather(ctl.results).raised THEN Cleanup(ctl, "error")
            ELSE Process(ctl, 1)
  /\ UNCHANGED <<now, blocked_until, operation_stats, ex, invocations, hist, cfg, probe>>

\* The await of _send_appointment_alert returns: lines 207-217.
AppointmentAlertReturn(delivery) ==
  /\ ctl.pc = "process"
  /\ LET c == [ctl EXCEPT
                 !.is_running = _send_appointment_alert(@, delivery),
                 !.paused_on_detection =
                     @ \/ (ctl.is_running /\ ~_send_appointment_alert(TRUE, delivery)),
                 !.alerts = IF delivery = "sent" /\ @ < MaxAlertCount
                            THEN @ + 1 ELSE @,
                 !.left = @ - 1]
     IN ctl' = IF c.left = 0 THEN Process(c, c.idx + 1) ELSE c
  /\ UNCHANGED <<now, blocked_until, operation_stats, ex, invocations, hist, cfg, probe>>

\* The status report and _maintain_sessions return; lines 141-150: the
\* delay is computed from the draw base_delay and the loop waits for the
\* shutdown event with that timeout.
MaintainReturn(base_delay) ==
  /\ ctl.pc = "maintain"
  /\ LET delay == _calculate_next_delay(ctl.city_stats, base_delay)
     IN ctl' = [ctl EXCEPT !.pc = "sleep", !.delay = delay,
                           !.wake_at = now + delay,
                           !.rate = _calculate_overall_success_rate(ctl.city_stats)]
  /\ UNCHANGED <<now, blocked_until, operation_stats, ex, invocations, hist, cfg, probe>>

\* wait_for times out: line 153, continue, and the while condition again.
SleepTimeout ==
  /\ ctl.pc = "sleep"
  /\ wait_for(ctl.shutdown, ctl.wake_at, now) = "TimeoutError"
  /\ CanEnterLoop(ctl)
  /\ ctl' = EnterLoop(ctl)
  /\ UNCHANGED <<now, blocked_until, operation_stats, ex, invocations, hist, cfg, probe>>

\* wait_for returns because the shutdown event is set: line 151, break.
SleepShutdown ==
  /\ ctl.pc = "sleep"
  /\ wait_for(ctl.shutdown, ctl.wake_at, now) = "returned"
  /\ ctl' = Cleanup(ctl, "break")
  /\ UNCHANGED <<now, blocked_until, operation_stats, ex, invocations, hist, cfg, probe>>

\* Variant: the signal cancels the check tasks that are still running.
ShutdownCancels ==
  /\ ~ctl.shutdown
  /\ ctl.pc # "returned"
  /\ ctl' = [ctl EXCEPT !.shutdown = TRUE, !.shutdown_at = now,
                        !.at_shutdown = [e \in Executors |->
                                           IF ex[e].pc = "sleeping" THEN ex[e].calls
                                           ELSE 0 - 1],
                        !.in_flight = \E o \in OfficeSet : ctl.task[o] = "running",
                        !.task = [o \in OfficeSet |->
                                    IF @[o] = "running" THEN "done" ELSE @[o]],
                        !.results = [o \in OfficeSet |->
                                       IF ctl.task[o] = "running"
                                       THEN RaisedOutcome("CancelledError") ELSE @[o]]]
  /\ UNCHANGED <<now, blocked_until, operation_stats, ex, invocations, hist, cfg, probe>>

\* _shutdown: the signal handler's task sets the event.  in_flight records
\* whether a check was running at that moment.
Shutdown ==
  /\ ~ctl.shutdown
  /\ ctl.pc # "returned"
  /\ ctl' = [ctl EXCEPT !.shutdown = TRUE, !.shutdown_at = now,
                        !.at_shutdown = [e \in Executors |->
                                           IF ex[e].pc = "sleeping" THEN ex[e].calls
                                           ELSE 0 - 1],
                        !.in_flight = \E o \in OfficeSet : ctl.task[o] = "running"]
  /\ UNCHANGED <<now, blocked_until, operation_stats, ex, invocations, hist, cfg, probe>>

pause_monitoring ==
  /\ ctl.pc \notin {"start", "returned"}
  /\ ctl.is_running
  /\ ctl' = [ctl EXCEPT !.is_running = FALSE,
                        !.paused_on_detection = ctl.detected_cycle # 0]
  /\ UNCHANGED <<now, blocked_until, operation_stats, ex, invocations, hist, cfg, probe>>

resume_monitoring ==
  /\ ctl.pc # "start"
  /\ ~ctl.is_running
  /\ ctl.resumes < MaxResumes
  /\ ctl' = [ctl EXCEPT !.is_running = TRUE, !.resumes = @ + 1,
                        !.alerts = 0, !.detected_cycle = 0,
                        !.paused_on_detection = FALSE]
  /\ UNCHANGED <<now, blocked_until, operation_stats, ex, invocations, hist, cfg, probe>>

NextCtl ==
  \/ \E ok \in BOOLEAN : RunMonitoringLoop(ok)
  \/ \E o \in OfficeSet, nargs \in cfg.call_args, result \in CheckRetryResults :
        CheckReturn(o, nargs, result)
  \/ GatherReturn
  \/ \E delivery \in Deliveries : AppointmentAlertReturn(delivery)
  \/ \E base_delay \in cfg.base_delays : MaintainReturn(base_delay)
  \/ SleepTimeout
  \/ SleepShutdown
  \/ Shutdown
  \/ pause_monitoring
  \/ resume_monitoring
  \/ \E t \in TickTargets : Tick(t)

\* The engine's steps together with the shutdown signal: no line of
\* retry_engine.py reads the shutdown event, so the signal changes nothing
\* an executor sees.
NextShutdown ==
  \/ Next
  \/ Shutdown

\* The engine right after k earlier invocations of opA, each with
\* max_attempts = 1, that failed at once with a Medium error: the statistics
\* hold k consecutive failures and the breaker was never touched.
RECURSIVE PriorStats(_)
PriorStats(k) ==
  IF k = 0 THEN [n \in {} |-> NewFailureEntry]
  ELSE _update_failure_stats(PriorStats(k - 1), "opA", 1, 0, ErrSimulated)

InitState(k) ==
  /\ now = 0
  /\ blocked_until = NoTime
  /\ operation_stats = PriorStats(k)
  /\ ex = [e \in Executors |-> IdleExec]
  /\ invocations = 0
  /\ hist = [streak |-> [n \in OperationNames |-> IF n = "opA" THEN k ELSE 0],
             trip |-> NoTime, terminal |-> k, succeeded |-> 0, resets |-> 0,
             critical |-> FALSE]
  /\ ctl = IdleCtl
  /\ probe = NoProbe

\* One invocation, on a fresh engine or after PriorFailures consecutive
\* failures of opA: every strategy, every severity, up to MaxAttemptsArg
\* attempts.
FullCfg ==
  [executors |-> {"t1"}, operations |-> {"opA"},
   max_args |-> 1..MaxAttemptsArg, strategies |-> RetryStrategy,
   errors |-> ErrorTexts, budget |-> MaxInvocations, horizon |-> Sec(MaxTimeSec)]

Init == (\E k \in {0, PriorFailures} : InitState(k)) /\ cfg = FullCfg

Spec == Init /\ [][Next]_vars

\* An upper bound on the time n failed attempts take: every backoff delay is
\* at most base * 5 * max(3 * a, 1.5 * 2^(a-1)), and a tier's recovery
\* actions sleep less than 10 s together.
RECURSIVE WorstElapsed(_)
WorstElapsed(n) ==
  IF n = 0 THEN 0
  ELSE WorstElapsed(n - 1)
         + retry_delay * severity_multipliers["CRITICAL"] * (3 * n + Pow2(n)) + Sec(10)

\* One invocation as in Spec, with time enough for its longest run, every
\* awaited call, recovery action and sleep returning, and time passing.
LiveCfg == [FullCfg EXCEPT !.horizon = WorstElapsed(MaxAttemptsArg)]

InitLive == (\E k \in {0, PriorFailures} : InitState(k)) /\ cfg = LiveCfg

Returns ==
  /\ WF_vars(\E e \in Executors :
               \/ OpSucceed(e)
               \/ \E error \in ErrorTexts, j \in JitterPercents \cup {0} :
                     OpFail(e, error, j))
  /\ WF_vars(\E e \in Executors, ok \in BOOLEAN, j \in JitterPercents \cup {0} :
               RecoveryReturn(e, ok, j))
  /\ WF_vars(\E e \in Executors : Wake(e))
  /\ WF_vars(\E e \in Executors : AlertReturn(e))
  /\ WF_vars(\E t \in TickTargets : Tick(t))

SpecLive == InitLive /\ [][Next]_vars /\ Returns

\* A sequence of invocations of two operation names after up to
\* PriorFailures consecutive failures of opA.
SeqCfg ==
  [executors |-> {"t1"}, operations |-> OperationNames,
   max_args |-> 1..SeqAttemptsArg, strategies |-> {"LINEAR", "ADAPTIVE"},
   errors |-> {ErrCloudflare, ErrSimulated}, budget |-> SeqInvocations,
   horizon |-> Sec(MaxTimeSec)]

InitSeq == (\E k \in 0..PriorFailures : InitState(k)) /\ cfg = SeqCfg

SpecSeq == InitSeq /\ [][Next]_vars

\* The monitoring loop over three offices, MaxCycles cycles, every base
\* delay drawn at the lower end of the interval.  A check is
\* called with three positional arguments, as line 129 does, or with none,
\* as the decorator's own test does (retry_engine.py, lines 573-577).
CtlCfg ==
  [executors |-> {}, operations |-> {}, max_args |-> {}, strategies |-> {},
   errors |-> {}, budget |-> 0, horizon |-> Sec(MaxTimeSec), call_args |-> {0, 3},
   base_delays |-> {Sec(check_interval_min * 60)}]

InitCtl == InitState(0) /\ cfg = CtlCfg

SpecCtl == InitCtl /\ [][NextCtl]_vars

\* One invocation with any max_attempts argument from -MaxNegativeArg to 1:
\* negative, 0 (or None) and positive; the Linear strategy, a Medium and a
\* Critical error.
ArgsCfg ==
  [FullCfg EXCEPT !.max_args = (0 - MaxNegativeArg)..1,
                  !.strategies = {"LINEAR"},
                  !.errors = {ErrSimulated, ErrCloudflare}]

InitArgs == (\E k \in {0, PriorFailures} : InitState(k)) /\ cfg = ArgsCfg

SpecArgs == InitArgs /\ [][Next]_vars

\* One invocation with the default strategy of execute_with_retry and up
\* to SeqAttemptsArg attempts, the shutdown signal firing at any moment.
ShutdownCfg ==
  [FullCfg EXCEPT !.strategies = {"JITTERED"}, !.max_args = 1..SeqAttemptsArg]

InitShutdown == (\E k \in {0, PriorFailures} : InitState(k)) /\ cfg = ShutdownCfg

SpecShutdown == InitShutdown /\ [][NextShutdown]_vars

\* Two executors running at the same time, as the tasks of one monitoring
\* cycle do, on the same or on different operation names, over the first
\* ConcTimeSec seconds.
ConcCfg ==
  [executors |-> Executors, operations |-> OperationNames,
   max_args |-> 1..SeqAttemptsArg, strategies |-> {"LINEAR"},
   errors |-> {ErrCloudflare, ErrTimeout}, budget |-> ConcInvocations,
   horizon |-> Sec(ConcTimeSec)]

InitConc == (\E k \in {0, PriorFailures} : InitState(k)) /\ cfg = ConcCfg

SpecConc == InitConc /\ [][Next]_vars

\* The classifier on its own: every text of up to MaxWords words over
\* ProbeWords, which holds words of rules of each severity, in both cases,
\* and a word of no rule.
ProbeWords ==
  {"TIMEOUT", "timeout", "Blocked", "blocked", "Login", "failed", "unknown"}

ProbeTexts == UNION {[1..n -> ProbeWords] : n \in 0..MaxWords}

\* error_severity = self._classify_error(str(e)), line 198.
Classify ==
  /\ ~probe.done
  /\ probe' = [probe EXCEPT !.severity = _classify_error(probe.text), !.done = TRUE]
  /\ UNCHANGED <<now, blocked_until, operation_stats, ex, invocations, hist, cfg, ctl>>

NextClassify == Classify

InitClassify ==
  /\ \E text \in ProbeTexts : probe = [NoProbe EXCEPT !.text = text]
  /\ now = 0
  /\ blocked_until = NoTime
  /\ operation_stats = PriorStats(0)
  /\ ex = [e \in Executors |-> IdleExec]
  /\ invocations = 0
  /\ hist = [streak |-> [n \in OperationNames |-> 0], trip |-> NoTime,
             terminal |-> 0, succeeded |-> 0, resets |-> 0, critical |-> FALSE]
  /\ ctl = IdleCtl
  /\ cfg = FullCfg

SpecClassify == InitClassify /\ [][NextClassify]_vars

\* reset_stats, lines 527-530: self.operation_stats.clear().
reset_stats(stats) == [n \in {} |-> stats[n]]

ResetStats ==
  /\ hist.resets < MaxResets
  /\ operation_stats' = reset_stats(operation_stats)
  /\ hist' = [hist EXCEPT !.streak = [n \in OperationNames |-> 0],
                          !.terminal = 0, !.succeeded = 0, !.resets = @ + 1]
  /\ UNCHANGED <<now, blocked_until, ex, invocations, cfg, ctl, probe>>

NextReset ==
  \/ Next
  \/ ResetStats

\* A sequence of invocations of two operation names over the first
\* ConcTimeSec seconds, the statistics being cleared at any moment.
ResetCfg ==
  [executors |-> {"t1"}, operations |-> OperationNames,
   max_args |-> 1..SeqAttemptsArg, strategies |-> {"LINEAR"},
   errors |-> {ErrCloudflare, ErrTimeout}, budget |-> ResetInvocations,
   horizon |-> Sec(ConcTimeSec)]

InitReset == (\E k \in {0, PriorFailures} : InitState(k)) /\ cfg = ResetCfg

SpecReset == InitReset /\ [][NextReset]_vars

\* The engine and the orchestrator at rest, for the specifications that
\* exercise one function on its own.
InitIdle ==
  /\ now = 0
  /\ blocked_until = NoTime
  /\ operation_stats = PriorStats(0)
  /\ ex = [e \in Executors |-> IdleExec]
  /\ invocations = 0
  /\ hist = [streak |-> [n \in OperationNames |-> 0], trip |-> NoTime,
             terminal |-> 0, succeeded |-> 0, resets |-> 0, critical |-> FALSE]
  /\ ctl = IdleCtl
  /\ cfg = FullCfg

\* operation_stats after s successful and f exhausted invocations of opA.
RECURSIVE StatsOf(_, _)
StatsOf(s, f) ==
  IF f > 0 THEN _update_failure_stats(StatsOf(s, f - 1), "opA", 1, 0, ErrSimulated)
  ELSE IF s > 0 THEN _update_success_stats(StatsOf(s - 1, 0), "opA", 1, 0)
  ELSE PriorStats(0)

\* _calculate_delay on its own: every attempt number up to MaxProbeAttempt,
\* every strategy and severity, every jitter draw, and the statistics after
\* up to MaxProbeRuns successes and MaxProbeRuns failures.
DelayProbes ==
  {[attempt |-> a, strategy |-> st, severity |-> sev, jitter |-> j,
    stats |-> StatsOf(s, f), delay |-> 0, done |-> FALSE] :
      a \in 1..MaxProbeAttempt, st \in RetryStrategy, sev \in ErrorSeverity,
      j \in JitterPercents \cup {0}, s \in 0..MaxProbeRuns, f \in 0..MaxProbeRuns}

\* delay = self._calculate_delay(attempt, strategy, error_severity), line 217.
CalculateDelay ==
  /\ ~probe.done
  /\ probe' = [probe EXCEPT !.delay = _calculate_delay(probe.attempt, probe.strategy,
                                                       probe.severity, probe.stats,
                                                       probe.jitter),
                            !.done = TRUE]
  /\ UNCHANGED <<now, blocked_until, operation_stats, ex, invocations, hist, cfg, ctl>>

NextDelay == CalculateDelay

InitDelay ==
  /\ \E p \in DelayProbes : p.jitter \in JitterDraws(p.strategy) /\ probe = p
  /\ InitIdle

SpecDelay == InitDelay /\ [][NextDelay]_vars

\* _calculate_next_delay on its own: office A has made up to
\* MaxProbeChecks checks, any number of them successful, office B none or
\* MaxProbeChecks with none or all successful, office C none; the draw is
\* either end of the interval.
ProbeCityStats ==
  {[o \in OfficeSet |->
      IF o = "A" THEN [total_checks |-> t, successful_checks |-> s]
      ELSE IF o = "B" THEN [total_checks |-> t2, successful_checks |-> s2]
      ELSE NewCityStats] :
     t \in 0..MaxProbeChecks, s \in 0..MaxProbeChecks,
     t2 \in {0, MaxProbeChecks}, s2 \in {0, MaxProbeChecks}}

NextDelayProbes ==
  {[city_stats |-> c, base_delay |-> d, delay |-> 0, done |-> FALSE] :
     c \in {cs \in ProbeCityStats :
              \A o \in OfficeSet : cs[o].successful_checks <= cs[o].total_checks},
     d \in BaseDelays}

\* delay = await self._calculate_next_delay(), line 144.
CalculateNextDelay ==
  /\ ~probe.done
  /\ probe' = [probe EXCEPT !.delay = _calculate_next_delay(probe.city_stats,
                                                            probe.base_delay),
                            !.done = TRUE]
  /\ UNCHANGED <<now, blocked_until, operation_stats, ex, invocations, hist, cfg, ctl>>

NextNextDelay == CalculateNextDelay

InitNextDelay ==
  /\ \E p \in NextDelayProbes : probe = p
  /\ InitIdle

SpecNextDelay == InitNextDelay /\ [][NextNextDelay]_vars

(***************************************************************************)
(* Notifier (backend/core/telegram_bot.py): the module-level               *)
(* telegram_notifier, shared by every task that runs                       *)
(*   async with telegram_notifier as notifier:                             *)
(*       await notifier.send_system_alert(...)                             *)
(* as _action_notify_admin and _handle_critical_failure do.  session is    *)
(* self.session: "None", an "open" ClientSession, or a "closed" one that   *)
(* stop() has closed and not yet reset.  A task is out of the block,       *)
(* posting (its request in flight) or closing (awaiting session.close()).  *)
(* cut records that the session a request is in flight on was closed.      *)
(***************************************************************************)
MaxNotifications == 2

OutOfBlock == [pc |-> "out", blocks |-> 0, cut |-> FALSE, result |-> "none"]

NotifierIdle ==
  [enabled |-> TRUE, session |-> "None", task |-> [e \in Executors |-> OutOfBlock]]

\* start(), lines 40-44: a session is created only when there is none.
start(session) == IF session = "None" THEN "open" ELSE session

\* stop() up to its await, lines 46-49, run by task e: the session, if
\* any, is closed, whoever else has a request in flight on it.
stop(n, e) ==
  IF n.session = "None"
  THEN [n EXCEPT !.task[e].pc = "out"]
  ELSE [n EXCEPT !.session = "closed",
                 !.task = [f \in Executors |->
                             IF f = e THEN [@[f] EXCEPT !.pc = "closing"]
                             ELSE IF @[f].pc = "posting" /\ n.session = "open"
                                  THEN [@[f] EXCEPT !.cut = TRUE]
                                  ELSE @[f]]]

\* What session.post can end with: HTTP 200, another status, or an
\* exception; a request whose session was closed under it ends with an
\* exception.
PostOutcomes(cut) == IF cut THEN {"exception"} ELSE {"200", "failed", "exception"}

\* Task e enters the block and sends: __aenter__ (lines 31-34), then
\* send_system_alert (lines 90-94) and _send_message up to the await of
\* session.post (lines 267-279).  With notifications disabled the send
\* returns False at once, and on a closed session post raises at once; the
\* block is then left through __aexit__.
EnterAndSend(e) ==
  /\ probe.task[e].pc = "out"
  /\ probe.task[e].blocks < MaxNotifications
  /\ LET n == [probe EXCEPT !.session = start(@),
                            !.task[e].blocks = @ + 1,
                            !.task[e].cut = FALSE,
                            !.task[e].result = "none"]
     IN probe' = IF ~n.enabled \/ n.session = "closed"
                 THEN stop([n EXCEPT !.task[e].result = "False"], e)
                 ELSE [n EXCEPT !.task[e].pc = "posting"]
  /\ UNCHANGED <<now, blocked_until, operation_stats, ex, invocations, hist, cfg, ctl>>

\* The request of task e ends: lines 279-294, the return of
\* send_system_alert, and __aexit__ up to the await in stop().
PostReturn(e, status) ==
  /\ probe.task[e].pc = "posting"
  /\ status \in PostOutcomes(probe.task[e].cut)
  /\ probe' = stop([probe EXCEPT !.task[e].result =
                                    IF status = "200" THEN "True" ELSE "False"], e)
  /\ UNCHANGED <<now, blocked_until, operation_stats, ex, invocations, hist, cfg, ctl>>

\* session.close() returns to task e: line 50, self.session = None.
CloseReturn(e) ==
  /\ probe.task[e].pc = "closing"
  /\ probe' = [probe EXCEPT !.session = "None", !.task[e].pc = "out"]
  /\ UNCHANGED <<now, blocked_until, operation_stats, ex, invocations, hist, cfg, ctl>>

NextNotify ==
  \/ \E e \in Executors : EnterAndSend(e)
  \/ \E e \in Executors, status \in {"200", "failed", "exception"} : PostReturn(e, status)
  \/ \E e \in Executors : CloseReturn(e)

InitNotify ==
  /\ \E enabled \in BOOLEAN : probe = [NotifierIdle EXCEPT !.enabled = enabled]
  /\ InitIdle

SpecNotify == InitNotify /\ [][NextNotify]_vars

(***************************************************************************)
(* Properties                                                              *)
(***************************************************************************)
Active(e) == ex[e].pc # "idle"

\* The breaker as the invocation found it when it started.
StartOpen(x) == x.start_bu # NoTime /\ x.start_time < x.start_bu

ShortCircuit(x) ==
  /\ x.pc = "done"
  /\ x.result.success = FALSE
  /\ x.result.total_attempts = 0
  /\ x.calls = 0

ExhaustedOutcome(x) ==
  x.pc \in {"alerting", "done"} /\ ~x.result.success /\ x.calls > 0

AllOfSeverity(history, s) ==
  \A i \in 1..Len(history) : _classify_error(history[i]) = s

\* C1: no operation call is started while the circuit breaker is open,
\* later attempts of an invocation already in progress included.
C1_NoCallWhileOpen ==
  \A e \in Executors : ~ex[e].call_open

\* C2: an invocation that starts while now < blocked_until returns at once
\* a failed result with total_attempts = 0 and a "temporarily blocked"
\* message, without any operation call, recovery action or sleep, and
\* leaves operation_stats as it found it.
C2_BlockedShortCircuit ==
  \A e \in Executors :
     (Active(e) /\ StartOpen(ex[e])) =>
        /\ ex[e].pc = "done"
        /\ ex[e].result.success = FALSE
        /\ ex[e].result.total_attempts = 0
        /\ Contains(Lower(ex[e].result.error_message), <<"temporarily", "blocked">>)
        /\ ex[e].ret_time = ex[e].start_time
        /\ ex[e].calls = 0
        /\ ex[e].rec_log = <<>>
        /\ ex[e].delays = <<>>
        /\ ex[e].total_delay = 0
        /\ ex[e].ret_stats = ex[e].start_stats

C2_Witness ==
  \E e \in Executors :
     ex[e].pc = "done" /\ StartOpen(ex[e]) /\ ex[e].result.total_attempts = 0

\* C3: when an invocation ends Exhausted with final severity Critical, the
\* auto-block opens the breaker and requests its alert if and only if the
\* operation's consecutive-failure count, after this failure is recorded,
\* has reached max_consecutive_failures.
C3_AutoBlockIffThreshold ==
  \A e \in Executors :
     (ExhaustedOutcome(ex[e])
        /\ _classify_error(ex[e].result.error_message) = "CRITICAL") =>
        (ex[e].auto_block <=> ex[e].post_count >= max_consecutive_failures)

\* C4: once an operation has max_consecutive_failures consecutive terminal
\* failures, the last one Critical, every invocation of any operation name
\* that starts before the cooldown elapses returns success = false with
\* total_attempts = 0 and never calls its operation.
C4_BlockedAfterThreshold ==
  \A e \in Executors :
     (Active(e) /\ ex[e].tripped) => ShortCircuit(ex[e])

C4_Witness ==
  \E e \in Executors :
     /\ ex[e].tripped
     /\ ex[e].pc = "done"
     /\ ex[e].operation_name = "opB"
     /\ hist.streak["opA"] >= max_consecutive_failures

\* C5: the breaker is open exactly while now < blocked_until: an
\* invocation starting at now >= blocked_until proceeds to attempt 1, one
\* starting at now < blocked_until is short-circuited.
C5_OpenExactlyBeforeDeadline ==
  \A e \in Executors :
     Active(e) =>
        /\ StartOpen(ex[e]) => ShortCircuit(ex[e])
        /\ ~StartOpen(ex[e]) => ex[e].calls >= 1

C5_Witness ==
  \E e \in Executors :
     /\ Active(e)
     /\ ex[e].start_bu # NoTime
     /\ ex[e].start_time = ex[e].start_bu
     /\ ex[e].calls >= 1

\* C6: Scenario B: with the breaker closed at the start, an operation that
\* fails both of its max_attempts = 2 attempts with a "cloudflare" error
\* yields success = false, a recovery_actions list holding the emergency
\* stop, and a breaker that is active when the outcome is returned.  Stated
\* for runs where the operation and the recovery actions take no time, so
\* that only the backoff delay separates the emergency stop from the return.
C6_ScenarioB ==
  \A e \in Executors :
     (/\ ex[e].pc = "done"
      /\ ~StartOpen(ex[e])
      /\ ex[e].max_attempts = 2
      /\ ex[e].error_history = <<ErrCloudflare, ErrCloudflare>>
      /\ ex[e].ret_time = ex[e].start_time + ex[e].total_delay) =>
        /\ ex[e].result.success = FALSE
        /\ \E i \in 1..Len(ex[e].result.recovery_actions) :
              ex[e].result.recovery_actions[i] = "_action_emergency_stop"
        /\ IsOpen(ex[e].ret_blocked_until, ex[e].ret_time)

\* C7: Scenario A generalised: with the Linear strategy, failures of one
\* severity s on attempts 1..k-1 and a success on attempt k give
\* success = true, total_attempts = k, exactly k-1 backoff sleeps of
\* retry_delay * multiplier(s) each, and that much accumulated delay.
C7_LinearScenario ==
  \A e \in Executors : \A sev \in ErrorSeverity :
     (/\ ex[e].pc = "done"
      /\ ex[e].result.success
      /\ ex[e].strategy = "LINEAR"
      /\ AllOfSeverity(ex[e].error_history, sev)) =>
        LET k == Len(ex[e].error_history) + 1
            d == retry_delay * severity_multipliers[sev]
        IN /\ ex[e].result.total_attempts = k
           /\ ex[e].calls = k
           /\ Len(ex[e].delays) = k - 1
           /\ \A i \in 1..Len(ex[e].delays) : ex[e].delays[i] = d
           /\ ex[e].total_delay = (k - 1) * d

C7_Witness ==
  \E e \in Executors :
     /\ ex[e].pc = "done"
     /\ ex[e].result.success
     /\ ex[e].strategy = "LINEAR"
     /\ ex[e].error_history = <<ErrSimulated, ErrSimulated>>
     /\ ex[e].result.total_attempts = 3
     /\ ex[e].delays = <<Sec(retry_delay), Sec(retry_delay)>>

\* C8: in an invocation that is not short-circuited the attempt counter
\* stays in 1..max_attempts, the operation is called between 1 and
\* max_attempts times, and the returned total_attempts is the number of
\* calls made: the index of the successful attempt, or max_attempts.
C8_AttemptsWithinBounds ==
  \A e \in Executors :
     (Active(e) /\ ex[e].max_attempts >= 1 /\ ~StartOpen(ex[e])) =>
        /\ ex[e].attempt_count \in 1..ex[e].max_attempts
        /\ ex[e].calls \in 1..ex[e].max_attempts
        /\ ex[e].calls = ex[e].attempt_count
        /\ ex[e].pc \in {"alerting", "done"} =>
              /\ ex[e].result.total_attempts = ex[e].calls
              /\ ex[e].result.success =>
                    ex[e].result.total_attempts = Len(ex[e].error_history) + 1
              /\ ~ex[e].result.success =>
                    ex[e].result.total_attempts = ex[e].max_attempts

C8_Witness ==
  \E e \in Executors :
     /\ ex[e].pc = "done"
     /\ ~ex[e].result.success
     /\ ex[e].max_attempts = 3
     /\ ex[e].calls = 3

\* C9: with max_attempts = 1 and the breaker closed the operation is called
\* exactly once; a failure goes straight to Exhausted: no recovery action,
\* no backoff delay, and the failure is recorded once in the statistics.
C9_SingleAttempt ==
  \A e \in Executors :
     (ex[e].pc = "done" /\ ex[e].max_attempts = 1 /\ ~StartOpen(ex[e])) =>
        /\ ex[e].calls = 1
        /\ ~ex[e].result.success =>
              LET op == ex[e].operation_name
                  before == IF op \in DOMAIN ex[e].start_stats
                            THEN ex[e].start_stats[op] ELSE NewFailureEntry
              IN /\ ex[e].rec_log = <<>>
                 /\ ex[e].delays = <<>>
                 /\ ex[e].total_delay = 0
                 /\ op \in DOMAIN ex[e].ret_stats
                 /\ ex[e].ret_stats[op].total_runs = before.total_runs + 1
                 /\ ex[e].ret_stats[op].consecutive_failures =
                       before.consecutive_failures + 1
                 /\ ex[e].ret_stats[op].successful_runs = before.successful_runs

C9_Witness ==
  \E e \in Executors :
     /\ ex[e].pc = "done"
     /\ ex[e].max_attempts = 1
     /\ ex[e].calls = 1
     /\ ~ex[e].result.success

\* C10: an operation's consecutive_failures is the number of exhaustions
\* recorded for it since its last recorded success: a success sets it to 0,
\* an exhaustion adds 1, and blocked invocations and failed attempts that
\* are not the last leave it alone.
C10_ConsecutiveFailures ==
  \A op \in OperationNames :
     IF op \in DOMAIN operation_stats
     THEN operation_stats[op].consecutive_failures = hist.streak[op]
     ELSE hist.streak[op] = 0

C10_Witness ==
  /\ "opA" \in DOMAIN operation_stats
  /\ operation_stats["opA"].successful_runs >= 1
  /\ operation_stats["opA"].total_runs >= 3
  /\ operation_stats["opA"].consecutive_failures = 1

Faulted(c) == {o \in OfficeSet : c.results[o].kind = "exception"}

\* C11: no operation failure is raised to the Orchestrator: the call through
\* which it runs a check returns a value whose success flag it inspects, so
\* no result gathered from a check task is an exception.
C11_NoFailureRaised ==
  \A o \in OfficeSet : ctl.results[o].kind # "exception"

\* C12: a failure or fault in one target's check never cancels or blocks the
\* other checks: processing starts only when every check has completed,
\* every result of the cycle is visited, and the cycle goes on to the delay
\* computation instead of aborting the loop.
C12_FaultIsolated ==
  /\ ctl.exit_via # "error"
  /\ ctl.pc \in {"process", "maintain", "sleep"} =>
        \A o \in OfficeSet : ctl.task[o] = "done" /\ ctl.results[o].kind # "none"
  /\ ctl.pc \in {"maintain", "sleep"} => ctl.seen = OfficeSet

C12_Witness ==
  /\ ctl.pc = "sleep"
  /\ Faulted(ctl) = {"B"}
  /\ ctl.seen = OfficeSet
  /\ ctl.results["C"].appointments > 0

\* C13: a target whose check raised an unexpected fault in a cycle is counted
\* as a failed check in the overall success rate used for the following
\* inter-cycle delay, so that rate is below 1.
C13_FaultCounted ==
  (ctl.pc = "sleep" /\ Faulted(ctl) # {}) =>
     /\ \A o \in Faulted(ctl) :
           ctl.city_stats[o].total_checks > ctl.city_stats[o].successful_checks
     /\ ctl.rate.num < ctl.rate.den

C16_BackoffCancelled ==
  \A e \in cfg.executors :
    (ctl.shutdown /\ ctl.at_shutdown[e] >= 0) =>
      /\ ex[e].pc = "sleeping" => now = ctl.shutdown_at
      /\ ex[e].pc \in {"sleeping", "calling", "recovering", "alerting", "done"} =>
           ex[e].calls = ctl.at_shutdown[e]

\* C17: the loop leaves the inter-cycle sleep either because the shutdown
\* signal fired, then at once and to exit without another cycle, or because
\* the computed delay has run out, then to start the next cycle if the
\* orchestrator is still running and to exit if it was paused meanwhile.
C17_CancellableSleep ==
  [][(ctl.pc = "sleep" /\ ctl'.pc # "sleep") =>
       IF ctl.shutdown
       THEN /\ ctl'.pc = "returned"
            /\ ctl'.cycle = ctl.cycle
            /\ \/ now = ctl.shutdown_at
               \/ now = ctl.wake_at - ctl.delay
       ELSE /\ now >= ctl.wake_at
            /\ IF ctl.is_running
               THEN ctl'.pc = "gather" /\ ctl'.cycle = ctl.cycle + 1
               ELSE ctl'.pc = "returned" /\ ctl'.cycle = ctl.cycle]_vars

C17_Witness ==
  /\ ctl.pc = "returned"
  /\ ctl.exit_via = "break"
  /\ ctl.shutdown_at > ctl.wake_at - ctl.delay
  /\ now < ctl.wake_at

\* C17 as stated: whenever the signal has not fired, the sleep lasts the
\* computed delay and the next cycle starts.
C17_AsStated ==
  [][(ctl.pc = "sleep" /\ ctl'.pc # "sleep") =>
       IF ctl.shutdown
       THEN ctl'.pc = "returned" /\ ctl'.cycle = ctl.cycle
       ELSE /\ now >= ctl.wake_at
            /\ ctl'.pc = "gather"
            /\ ctl'.cycle = ctl.cycle + 1]_vars

\* C18: the tasks of cycle k+1 are created only when no check of cycle k is
\* still running, while within a cycle the checks finish in any order.
C18_PerTargetOrdering ==
  [][ctl'.cycle # ctl.cycle => \A o \in OfficeSet : ctl.task[o] # "running"]_vars

C18_Witness ==
  /\ ctl.cycle = 2
  /\ ctl.task["A"] = "running"
  /\ ctl.task["B"] = "done"
  /\ ctl.task["C"] = "running"

\* C19: under every interleaving of concurrently running executors, no
\* statistics update is lost or torn: once every executor has finished, the
\* sum of total_runs equals the number of invocations that ended in success
\* or exhaustion and the sum of successful_runs the number that succeeded;
\* and successful_runs <= total_runs for every operation in every state.
Quiescent == \A e \in cfg.executors : ex[e].pc \in {"idle", "done"}

C19_NoLostUpdate ==
  /\ Quiescent =>
       /\ SumField(operation_stats, DOMAIN operation_stats, "total_runs")
            = hist.terminal
       /\ SumField(operation_stats, DOMAIN operation_stats, "successful_runs")
            = hist.succeeded
  /\ \A op \in DOMAIN operation_stats :
       operation_stats[op].successful_runs <= operation_stats[op].total_runs

\* Two invocations of the same operation name overlapped in time, one ended
\* in success and the other in exhaustion, and both have finished.
C19_Witness ==
  /\ Quiescent
  /\ ex["t1"].pc = "done" /\ ex["t2"].pc = "done"
  /\ ex["t1"].operation_name = ex["t2"].operation_name
  /\ ex["t1"].start_time < ex["t2"].ret_time
  /\ ex["t2"].start_time < ex["t1"].ret_time
  /\ ex["t1"].result.success
  /\ ~ex["t2"].result.success /\ ex["t2"].result.total_attempts > 0
  /\ operation_stats[ex["t1"].operation_name].total_runs >= 2

\* C20: _classify_error returns the severity of the first rule, in the
\* table's declaration order, whose pattern is contained in the lower-cased
\* error text, and Medium when no pattern is; when several patterns are
\* contained the earliest declared rule decides.
MatchingRules(text) ==
  {i \in 1..Len(error_patterns) : Contains(Lower(text), error_patterns[i].pattern)}

C20_FirstRuleWins ==
  probe.done =>
    LET rules == MatchingRules(probe.text)
    IN IF rules = {} THEN probe.severity = "MEDIUM"
       ELSE \E i \in rules :
              /\ \A j \in rules : i <= j
              /\ probe.severity = error_patterns[i].severity

\* A text that holds "timeout" and "blocked", not in lower case and with
\* "blocked" first, was classified Low by the earlier "timeout" rule.
C20_Witness ==
  /\ probe.done
  /\ probe.text = <<"Blocked", "TIMEOUT">>
  /\ Cardinality(MatchingRules(probe.text)) = 2
  /\ probe.severity = "LOW"

\* Ten times the delay, in tenths of a second, that the Exponential rule
\* prescribes: base delay times the severity's multiplier (0.5, 1, 2, 5,
\* written times ten) times 2^(a-1).
ExpectedExponential10(a, sev) ==
  LET mult10 == CASE sev = "LOW" -> 5 [] sev = "MEDIUM" -> 10
                  [] sev = "HIGH" -> 20 [] sev = "CRITICAL" -> 50
  IN Sec(retry_delay) * mult10 * 2^(a - 1)

\* C21: for every attempt a and every severity s the Exponential delay is
\* baseDelay * multiplier(s) * 2^(a-1), with multipliers Low 0.5, Medium 1.0,
\* High 2.0 and Critical 5.0.
C21_ExponentialDelay ==
  (probe.done /\ probe.strategy = "EXPONENTIAL") =>
     10 * probe.delay = ExpectedExponential10(probe.attempt, probe.severity)

\* The third attempt failed with a Critical error: 30 s * 5 * 4 = 600 s.
C21_Witness ==
  /\ probe.done
  /\ probe.strategy = "EXPONENTIAL"
  /\ probe.attempt = 3
  /\ probe.severity = "CRITICAL"
  /\ probe.delay = Sec(600)

\* C22: for every attempt, severity and jitter draw the Jittered delay lies
\* in the closed interval [exp(a), 1.5 * exp(a)], exp(a) being the
\* Exponential delay for the same attempt and severity.
C22_JitteredInterval ==
  (probe.done /\ probe.strategy = "JITTERED") =>
     LET exp10 == ExpectedExponential10(probe.attempt, probe.severity)
     IN /\ 10 * probe.delay >= exp10
        /\ 2 * 10 * probe.delay <= 3 * exp10

\* The largest jitter draw after a second attempt that failed with a Low
\* error: the Exponential delay is 30 s * 0.5 * 2 = 30 s, and the upper end
\* 1.5 * 30 s = 45 s of the interval is reached.
C22_Witness ==
  /\ probe.done
  /\ probe.strategy = "JITTERED"
  /\ probe.attempt = 2
  /\ probe.severity = "LOW"
  /\ probe.jitter = 50
  /\ probe.delay = Sec(45)

\* C23: the global success rate is the sum of successful_runs over all
\* operations divided by the sum of total_runs over all operations, that is
\* the number of recorded successes over the number of recorded runs; it is
\* exactly 1.0 when no run is recorded, right after reset_stats included;
\* and it always lies in [0, 1].
C23_GlobalSuccessRate ==
  LET rate == _get_recent_success_rate(operation_stats)
  IN /\ rate.den > 0
     /\ 0 <= rate.num /\ rate.num <= rate.den
     /\ hist.terminal = 0 => rate = [num |-> 1, den |-> 1]
     /\ hist.terminal > 0 => rate.num * hist.terminal = hist.succeeded * rate.den

\* reset_stats cleared the statistics of an engine that had recorded the
\* exhausted invocation whose result is still held, and the rate is 1.0.
C23_Witness ==
  /\ hist.resets > 0
  /\ ExhaustedOutcome(ex["t1"])
  /\ ex["t1"].ret_stats # PriorStats(0)
  /\ DOMAIN operation_stats = {}
  /\ _get_recent_success_rate(operation_stats) = [num |-> 1, den |-> 1]

\* C24: the inter-cycle delay is d * 1.5 when the overall success rate is
\* below 0.5, d * 0.8 when it is above 0.9 and d otherwise, in particular at
\* exactly 0.5 and at exactly 0.9, for the draw d; hence it lies in
\* [0.8 * minInterval, 1.5 * maxInterval].  With no check counted the rate
\* is 1.0.
C24_InterCycleDelay ==
  probe.done =>
    LET cs == probe.city_stats
        total == cs["A"].total_checks + cs["B"].total_checks + cs["C"].total_checks
        good == cs["A"].successful_checks + cs["B"].successful_checks
                  + cs["C"].successful_checks
        below_half == total > 0 /\ 2 * good < total
        above_nine_tenths == total = 0 \/ 10 * good > 9 * total
        d == probe.base_delay
    IN /\ below_half => 10 * probe.delay = 15 * d
       /\ above_nine_tenths => 10 * probe.delay = 8 * d
       /\ (~below_half /\ ~above_nine_tenths) => probe.delay = d
       /\ 10 * probe.delay >= 8 * Sec(check_interval_min * 60)
       /\ 10 * probe.delay <= 15 * Sec(check_interval_max * 60)

\* Nine successful checks out of ten, a rate of exactly 0.9: the draw is
\* left as it is.
C24_Witness ==
  /\ probe.done
  /\ probe.city_stats["A"] = [total_checks |-> 10, successful_checks |-> 9]
  /\ probe.city_stats["B"].total_checks = 0
  /\ probe.delay = probe.base_delay

\* The members of a sequence.
Range(seq) == {seq[i] : i \in 1..Len(seq)}

\* C25: the recovery-action identifiers carried by a failed RetryResult are
\* exactly the recovery actions that were attempted during that invocation;
\* an action that was never invoked is not listed.
C25_ListsAttemptedActions ==
  \A e \in cfg.executors :
    ExhaustedOutcome(ex[e]) =>
      Range(ex[e].result.recovery_actions) = Range(ex[e].rec_log)

\* C26: every Exhausted outcome has success = false, error_message equal to
\* the text of the last attempt's error, total_attempts = maxAttempts, and
\* recovery_actions equal to the ordered list of action identifiers
\* configured for the severity tier of that last error.
C26_ExhaustedOutcome ==
  \A e \in cfg.executors :
    ExhaustedOutcome(ex[e]) =>
      LET x == ex[e]
      IN /\ ~x.result.success
         /\ Len(x.error_history) = x.max_attempts
         /\ x.result.error_message = x.error_history[x.max_attempts]
         /\ x.result.total_attempts = x.max_attempts
         /\ x.result.recovery_actions = recovery_actions[x.severity]

\* Two attempts, the first failed with a Low error and the second with a
\* Critical one: the outcome carries the Critical tier's three actions.
C26_Witness ==
  \E e \in cfg.executors :
    /\ ExhaustedOutcome(ex[e])
    /\ ex[e].error_history = <<ErrTimeout, ErrCloudflare>>
    /\ ex[e].result.error_message = ErrCloudflare
    /\ ex[e].result.total_attempts = 2
    /\ ex[e].result.recovery_actions =
         <<"_action_emergency_stop", "_action_notify_admin", "_action_ip_rotation">>

\* C27: for every severity the recovery after a failed attempt invokes the
\* tier's actions strictly in list order, invokes no action after the first
\* one that reports success, goes on to the next action after one that
\* fails, and returns true iff some invoked action reported success;
\* whatever it returns, the backoff and the next attempt follow.  An action
\* whose awaited call raises catches the exception and reports failure
\* (lines 398-412); the loop's own except clause (lines 313-314) goes on to
\* the next action in the same way.
C27_RecoveryOrder ==
  \A e \in cfg.executors :
    LET x == ex[e] IN
    /\ x.pc = "sleeping" =>
         LET actions == recovery_actions[x.severity]
             n == Len(x.rec_log) - x.rec_from
         IN /\ Len(x.rec_reports) = Len(x.rec_log)
            /\ n \in 1..Len(actions)
            /\ \A k \in 1..n : x.rec_log[x.rec_from + k] = actions[k]
            /\ \A k \in 1..(n - 1) : ~x.rec_reports[x.rec_from + k]
            /\ n < Len(actions) => x.rec_reports[x.rec_from + n]
            /\ x.rec_success <=> \E k \in 1..n : x.rec_reports[x.rec_from + k]
    /\ x.pc = "calling" => x.attempt_count = Len(x.error_history) + 1
    /\ x.pc \in {"recovering", "sleeping"} =>
         x.attempt_count = Len(x.error_history) /\ x.attempt_count < x.max_attempts

\* A Critical failure: the emergency stop reported failure, the admin
\* notification failed because the Notifier raised, the IP rotation
\* succeeded, and the next attempt was made.
C27_Witness ==
  \E e \in cfg.executors :
    /\ ex[e].pc = "calling"
    /\ ex[e].attempt_count = 2
    /\ ex[e].rec_log =
         <<"_action_emergency_stop", "_action_notify_admin", "_action_ip_rotation">>
    /\ ex[e].rec_reports = <<FALSE, FALSE, TRUE>>
    /\ ex[e].rec_success

\* C28: the circuit breaker is opened only as a side effect of
\* Exhausted-state handling: a step that sets blocked_until is the step in
\* which an invocation's last attempt fails, never a step of an invocation
\* that still has attempts remaining, its recovery actions included.
C28_OpenedOnlyOnExhaustion ==
  [][(blocked_until' # blocked_until /\ blocked_until' # NoTime) =>
       \E e \in cfg.executors : ex[e].pc = "calling" /\ ExhaustedOutcome(ex'[e])]_vars

\* C29: blocked_until is set only on the Critical-severity path: as long as
\* no failed attempt has been classified Critical, however many consecutive
\* exhaustions occur, blocked_until stays empty and no invocation is
\* short-circuited.
C29_OnlyCriticalOpens ==
  ~hist.critical =>
    /\ blocked_until = NoTime
    /\ \A e \in cfg.executors : ~ShortCircuit(ex[e]) /\ ~ex[e].auto_block

\* Without any Critical error opA has failed max_consecutive_failures + 1
\* times in a row, and the breaker was never opened.
C29_Witness ==
  /\ ~hist.critical
  /\ ExhaustedOutcome(ex["t1"])
  /\ ex["t1"].operation_name = "opA"
  /\ operation_stats["opA"].consecutive_failures = max_consecutive_failures + 1
  /\ blocked_until = NoTime

\* C30: every opening of the breaker, by the emergency stop or by the
\* auto-block, sets blocked_until to now + cooldown, overwriting any existing
\* value; the clock never going back, a breaker that is reopened never gets
\* a blocked_until earlier than the one it replaces.
C30_FreshCooldown ==
  [][(blocked_until' # blocked_until /\ blocked_until' # NoTime) =>
       /\ blocked_until' = now + Sec(critical_error_cooldown)
       /\ blocked_until # NoTime => blocked_until' >= blocked_until]_vars

\* The emergency stop has just run a second time, after the backoff that
\* followed the first one and before the first deadline: the breaker was
\* open and its deadline moved on to now + cooldown.
C30_Witness ==
  \E e \in cfg.executors :
    /\ Len(ex[e].error_history) = 2
    /\ AllOfSeverity(ex[e].error_history, "CRITICAL")
    /\ ex[e].rec_from > 0
    /\ ex[e].stop_at = now
    /\ now > ex[e].start_time
    /\ now < ex[e].start_time + Sec(critical_error_cooldown)
    /\ blocked_until = now + Sec(critical_error_cooldown)

\* The states of the invocation an executor runs: Init before the first
\* await, Attempting while the operation is awaited, RetryWait during the
\* recovery actions and the backoff sleep, Success, Exhausted (its auto-block
\* alert included) and Blocked for the short-circuit.
Phase(x) ==
  CASE x.pc = "idle" -> "Init"
    [] x.pc = "calling" -> "Attempting"
    [] x.pc \in {"recovering", "sleeping"} -> "RetryWait"
    [] x.pc = "alerting" -> "Exhausted"
    [] x.pc = "done" /\ x.result.success -> "Success"
    [] x.pc = "done" /\ x.calls = 0 -> "Blocked"
    [] OTHER -> "Exhausted"

Transitions ==
  {<<"Init", "Attempting">>, <<"Init", "Blocked">>,
   <<"Attempting", "Success">>, <<"Attempting", "RetryWait">>,
   <<"Attempting", "Exhausted">>, <<"RetryWait", "RetryWait">>,
   <<"RetryWait", "Attempting">>, <<"Exhausted", "Exhausted">>}

\* The caller takes the result of a finished invocation.
Taken(e) == ex[e].pc = "done" /\ ex'[e] = IdleExec

\* C31: every invocation follows Init -> Attempting -> {Success, RetryWait,
\* Exhausted} with RetryWait -> Attempting only, makes at most maxAttempts
\* operation calls, and leaves Success or Exhausted by no transition (its
\* result stays as it is until the caller takes it); and provided every
\* operation call, recovery action and sleep returns, it reaches Success,
\* Exhausted or the blocked short-circuit.
C31_StateMachine ==
  /\ [][\A e \in Executors :
          (ex'[e] # ex[e] /\ ~Taken(e)) =>
             /\ <<Phase(ex[e]), Phase(ex'[e])>> \in Transitions
             /\ ex'[e].calls <= ex'[e].max_attempts
             /\ Phase(ex[e]) = "Exhausted" => ex'[e].result = ex[e].result]_vars
  /\ \A e \in Executors :
       (ex[e].pc # "idle") ~> (ex[e].pc = "done")

\* An invocation with three attempts went twice through RetryWait and is
\* Exhausted after three operation calls.
C31_Witness ==
  /\ Phase(ex["t1"]) = "Exhausted"
  /\ ex["t1"].pc = "done"
  /\ ex["t1"].max_attempts = 3
  /\ ex["t1"].calls = 3
  /\ Len(ex["t1"].delays) = 2

\* The steps of one invocation between two attempts.
\* Failed(e): the awaited operation raised (lines 193-211).
Failed(e) ==
  /\ ex[e].pc = "calling"
  /\ Len(ex'[e].error_history) = Len(ex[e].error_history) + 1

\* Dispatched(e): an action of _execute_recovery_actions is awaited (line 214).
Dispatched(e) == ex'[e].pc = "recovering" /\ ex'[e] # ex[e]

\* Slept(e): the delay was computed and asyncio.sleep(delay) began (lines
\* 217-225).
Slept(e) == ex'[e].pc = "sleeping" /\ ex'[e] # ex[e]

\* Retried(e): the loop began its next iteration (lines 167-174).
Retried(e) == ex'[e].pc = "calling" /\ ex[e].pc \notin {"idle", "calling"}

\* C32: within one invocation the attempts are strictly sequential: attempt
\* N+1 starts only after attempt N failed, its recovery dispatch returned,
\* its delay was computed and its backoff sleep ended, in that order, and
\* neither a recovery action nor a sleep follows the last attempt.
C32_StrictlySequential ==
  /\ [](\A e \in Executors :
         LET x == ex[e] IN
           /\ x.pc = "calling" => /\ x.calls = x.attempt_count
                                  /\ Len(x.error_history) = x.attempt_count - 1
                                  /\ Len(x.delays) = x.attempt_count - 1
                                  /\ Len(x.rec_reports) = Len(x.rec_log)
           /\ x.pc = "recovering" => /\ x.attempt_count < x.max_attempts
                                     /\ Len(x.error_history) = x.attempt_count
                                     /\ Len(x.delays) = x.attempt_count - 1
                                     /\ Len(x.rec_reports) = Len(x.rec_log) - 1
           /\ x.pc = "sleeping" => /\ x.attempt_count < x.max_attempts
                                   /\ Len(x.error_history) = x.attempt_count
                                   /\ Len(x.delays) = x.attempt_count
                                   /\ Len(x.rec_reports) = Len(x.rec_log)
           /\ (x.pc \in {"alerting", "done"} /\ x.calls > 0 /\ ~x.result.success)
                 => /\ Len(x.error_history) = x.max_attempts
                    /\ Len(x.delays) = x.max_attempts - 1)
  /\ [][\A e \in Executors :
          LET x == ex[e]
              y == ex'[e]
          IN /\ Dispatched(e) =>
                  /\ Failed(e) \/ (x.pc = "recovering" /\ now >= x.wake_at)
                  /\ y.delays = x.delays
             /\ Slept(e) =>
                  /\ Failed(e) \/ (x.pc = "recovering" /\ now >= x.wake_at)
                  /\ Len(y.delays) = Len(x.delays) + 1
                  /\ y.wake_at = now + y.delays[Len(y.delays)]
             /\ Retried(e) =>
                  /\ x.pc = "sleeping"
                  /\ now >= x.wake_at
                  /\ y.attempt_count = x.attempt_count + 1
                  /\ y.rec_log = x.rec_log /\ y.delays = x.delays
             /\ (Failed(e) /\ x.attempt_count = x.max_attempts) =>
                  /\ y.pc \in {"alerting", "done"}
                  /\ y.rec_log = x.rec_log /\ y.delays = x.delays]_vars

\* The third attempt of an invocation is under way, after two failures whose
\* recoveries each awaited at least one action and whose sleeps both ended.
C32_Witness ==
  /\ ex["t1"].pc = "calling"
  /\ ex["t1"].attempt_count = 3
  /\ Len(ex["t1"].delays) = 2
  /\ ex["t1"].delays[1] > 0 /\ ex["t1"].delays[2] > 0
  /\ Len(ex["t1"].rec_reports) >= 4
  /\ now >= ex["t1"].start_time + ex["t1"].total_delay

\* The statistics a delay probe can hold.
ProbeStats == {StatsOf(s, f) : s \in 0..MaxProbeRuns, f \in 0..MaxProbeRuns}

\* r1 >= r2 for two rates kept as fractions.
RateAtLeast(r1, r2) == r1.num * r2.den >= r2.num * r1.den

\* C33: the Adaptive delay is baseDelay * multiplier(s) * (3 - 2 * rate) *
\* attempt (to the tenth of a second), rate being the global success rate;
\* computing it leaves the statistics as they are; for a fixed attempt and
\* severity it does not grow with the rate, and it lies between 1x (at rate
\* 1, and with no recorded run) and 3x (at rate 0) of baseDelay *
\* multiplier(s) * attempt.
C33_AdaptiveDelay ==
  /\ [](probe.done /\ probe.strategy = "ADAPTIVE" =>
         LET unit == retry_delay * severity_multipliers[probe.severity] * probe.attempt
             rate == _get_recent_success_rate(probe.stats)
             runs == SumField(probe.stats, DOMAIN probe.stats, "total_runs")
             exact == unit * (3 * rate.den - 2 * rate.num)
         IN /\ probe.delay * rate.den <= exact
            /\ exact < (probe.delay + 1) * rate.den
            /\ unit <= probe.delay /\ probe.delay <= 3 * unit
            /\ (runs = 0 \/ rate.num = rate.den) => probe.delay = unit
            /\ (runs > 0 /\ rate.num = 0) => probe.delay = 3 * unit
            /\ \A other \in ProbeStats :
                  RateAtLeast(_get_recent_success_rate(other), rate) =>
                    _calculate_delay(probe.attempt, probe.strategy, probe.severity,
                                     other, probe.jitter) <= probe.delay)
  /\ [][probe'.stats = probe.stats /\ operation_stats' = operation_stats]_vars

\* The Adaptive delay of a third attempt after a High error, with one
\* success in two recorded runs: 30 s * 2 * (3 - 2 * 1/2) * 3 = 360 s.
C33_Witness ==
  /\ probe.done
  /\ probe.strategy = "ADAPTIVE"
  /\ probe.severity = "HIGH"
  /\ probe.attempt = 3
  /\ SumField(probe.stats, DOMAIN probe.stats, "total_runs") = 2
  /\ SumField(probe.stats, DOMAIN probe.stats, "successful_runs") = 1
  /\ probe.delay = Sec(360)

\* What a check task can end with on its own: what the with_retry wrapper
\* returns or raises.
OwnOutcomes ==
  {with_retry(nargs, result) : nargs \in cfg.call_args, result \in CheckRetryResults}

\* C34: when the shutdown signal fires while checks of a cycle are in
\* flight, none of them is interrupted: each ends with an outcome of its
\* own, gather returns only when all have ended, every result is processed,
\* and the loop then leaves through the break of the inter-cycle wait, at
\* the moment the wait began and without another cycle.
C34_ShutdownInFlight ==
  [][/\ (~ctl.shutdown /\ ctl'.shutdown) =>
          /\ ctl'.task = ctl.task /\ ctl'.results = ctl.results
          /\ ctl'.pc = ctl.pc /\ ctl'.cycle = ctl.cycle
     /\ (ctl.shutdown /\ ctl.in_flight) =>
          /\ ctl'.cycle = ctl.cycle
          /\ \A o \in OfficeSet :
                /\ ctl.task[o] = "done" =>
                      ctl'.task[o] = "done" /\ ctl'.results[o] = ctl.results[o]
                /\ (ctl.task[o] = "running" /\ ctl'.task[o] # "running") =>
                      ctl'.task[o] = "done" /\ ctl'.results[o] \in OwnOutcomes
          /\ (ctl.pc = "gather" /\ ctl'.pc # "gather") =>
                GatherDone(ctl.task) /\ ctl'.pc \in {"process", "maintain"}
          /\ (ctl.pc = "maintain" /\ ctl'.pc # "maintain") =>
                ctl.seen = OfficeSet /\ ctl'.pc = "sleep"
          /\ ctl.pc = "sleep" =>
                /\ now' = now
                /\ ctl'.pc \in {"sleep", "returned"}
          /\ (ctl.pc # "returned" /\ ctl'.pc = "returned") =>
                /\ ctl.pc = "sleep"
                /\ ctl'.exit_via = "break"
                /\ ctl.wake_at = now + ctl.delay]_vars

\* The signal came while checks of the second cycle were running; the loop
\* has left through the break with every result processed.
C34_Witness ==
  /\ ctl.pc = "returned"
  /\ ctl.exit_via = "break"
  /\ ctl.in_flight
  /\ ctl.cycle = 2
  /\ ctl.seen = OfficeSet
  /\ GatherDone(ctl.task)
  /\ ctl.shutdown_at > 0
  /\ now = ctl.shutdown_at

\* C35: for every strategy and every max_attempts >= 2, when an invocation
\* whose attempts all failed with a Critical error returns its Exhausted
\* outcome, the breaker is open at that moment (now < blocked_until): the
\* backoff sleeps after the emergency stop never outlast its cooldown.
\* Stated for runs where the operation and the recovery actions take no
\* time, so that only the backoff sleeps separate the stop from the return.
C35_OpenAtExhaustion ==
  \A e \in Executors :
     (/\ ex[e].pc = "done"
      /\ ~StartOpen(ex[e])
      /\ ex[e].max_attempts >= 2
      /\ Len(ex[e].error_history) = ex[e].max_attempts
      /\ AllOfSeverity(ex[e].error_history, "CRITICAL")
      /\ ex[e].ret_time = ex[e].start_time + ex[e].total_delay) =>
        IsOpen(ex[e].ret_blocked_until, ex[e].ret_time)

\* C36: the orchestrator's positional call of the with_retry-decorated
\* check runs the decorated function inside the retry loop: in every cycle
\* with the breaker closed, the check body of each target whose task has
\* finished was executed at least once.
C36_BodyExecuted ==
  \A o \in OfficeSet :
     (ctl.task[o] = "done" /\ ~IsOpen(blocked_until, now)) => o \in ctl.entered

C38_SessionKeptWhileSending ==
  \A e \in Executors :
     probe.task[e].pc = "posting" =>
        probe.session = "open" /\ ~probe.task[e].cut

\* The attempts an invocation added to the statistics of its operation.
AttemptsAdded(x) ==
  x.ret_stats[x.operation_name].total_attempts
    - (IF x.operation_name \in DOMAIN x.start_stats
       THEN x.start_stats[x.operation_name].total_attempts ELSE 0)

\* C39: for every max_attempts argument, None, 0 and negative ones included,
\* the total_attempts of a result that is not the short-circuit and the
\* attempts the invocation added to operation_stats both equal the number
\* of operation calls made, and are not negative.
C39_AttemptsCounted ==
  \A e \in Executors :
     (ex[e].pc = "done" /\ ~StartOpen(ex[e])) =>
        /\ ex[e].result.total_attempts = ex[e].calls
        /\ AttemptsAdded(ex[e]) = ex[e].calls
        /\ ex[e].result.total_attempts >= 0
        /\ AttemptsAdded(ex[e]) >= 0

====
